---- MODULE Spec2Model ----
(***************************************************************************)
(* Orchestration core of Nexus: MultiAgentCoordinator (coordinator.py),    *)
(* FeedbackLoopManager (feedback_loop.py), the agent call of BaseAgent     *)
(* (base_agent.py) and the start-round endpoint (api/v1/research.py).      *)
(*                                                                         *)
(* One action is the code that runs between two suspension points of the   *)
(* asyncio event loop.  The only suspension points are the awaits on the   *)
(* agents' analyze calls (asyncio.gather / asyncio.wait_for).              *)
(***************************************************************************)
EXTENDS Integers, Sequences, FiniteSets, TLC

\* ------------------------------------------------------------------ bounds
NumAgents == 3      \* agents of the coordinator in the single-round specification
SessionAgents == 2  \* agents bound to the session in the multi-round specification
MaxRounds == 3      \* execute_round calls explored per behaviour
HttpAgents == 1     \* agents bound to the session served over HTTP
HttpRounds == 2     \* start-round requests explored per behaviour
MaxInFlight == 2    \* start-round requests the server may have in flight
MaxSessions == 2    \* sessions the store may hold in the session-store specification
NumPersonas == 2    \* personas of the catalog in the session-store specification
MaxSelected == 2    \* length of the selected_agents list of a create request
MaxRequests == 3    \* requests on the session store explored per behaviour
SummaryRounds == 2  \* rounds of the histories that differ in status, size, sentiment
InsightRounds == 3  \* rounds of the histories that differ in their consensus points
SynthAgents == 5    \* responses of the lists synthesize is applied to
SynthRounds == 2    \* round numbers synthesize is applied with
SummaryAgents == 2  \* responses a round of those histories may hold
KeywordAgents == 3  \* responses of the lists whose opportunities name common terms
ItemAgents == 2     \* responses of the lists whose items are aggregated
ConfidenceAgents == 4  \* responses of the lists that differ in confidence
SynthCalls == 2     \* calls of synthesize on one list
MaxLines == 3       \* lines of the text of the generation collaborator

\* --------------------------------------------------- constants of the source
KeyInsightsCap == 10  \* get_session_summary: list(set(all_consensus))[:10]
ConsensusCap == 5     \* _find_consensus: consensus_items[:5]
TopItems == 5         \* synthesize: top_n of opportunities, concerns, questions
TopNextSteps == 6     \* synthesize: top_n of the next steps
DefaultConfidence == 7  \* _parse_response: the default confidence_score 0.7, in tenths

\* strings the aggregated lists draw from: one more than the larger cap
NumItems == TopNextSteps + 1

\* confidence scores, in tenths, the responses draw from
ConfidenceScores == {3, 4, 7, 8, 9, 10}

\* occurrences of one common term in the opportunity of the first agent
MentionCounts == {0, 1, 2}

\* the first and the last string of the runs of strings an agent lists
RunStarts == {1, 3, 6}

RunEnds == {0, 2, 5, NumItems}

\* distinct consensus points the histories draw from: one more than the cap
NumPoints == KeyInsightsCap + 1

\* ------------------------------------------------------------- value model
Slots == 1..MaxInFlight

\* the agent list a session is constructed with; element i is the agent's id
AgentList(n) == [i \in 1..n |-> 10 + i]

\* Optional[List[...]]: None or a list
NoneList == [some |-> FALSE, val |-> <<>>]

SomeList(s) == [some |-> TRUE, val |-> s]

\* the three ways one awaited analyze call can end
Outcomes == {"ok", "error", "timeout"}

\* the analyze call awaited bare: nothing ends a call that is not answered
AwaitOutcomesUnbounded == {"ok", "error"}

\* the ways the awaited call can end; both modes await the analyze call
\* inside asyncio.wait_for(..., timeout=self.timeout), whose timer ends a
\* call that is not answered
AwaitOutcomes == {"ok", "error", "timeout"}

\* an unexpected exception inside the try block of execute_round
Faults == {"none", "coord", "synth"}

Modes == {"parallel", "sequential"}

NoResponse == [agent_id |-> 0, round_number |-> 0]

Pending == [kind |-> "pending", resp |-> NoResponse]

\* BaseAgent.analyze, when the collaborator answers: the AgentResponse of the
\* agent with id agent_id (the fields the orchestration reads or forwards)
Analyze(agent_id, round_number) ==
  [agent_id |-> agent_id, round_number |-> round_number]

\* the same without the wait_for bound: a late answer is still delivered
RunAgentWithoutTimeout(outcome, resp) ==
  CASE outcome = "ok" -> [kind |-> "response", resp |-> resp]
    [] outcome = "timeout" -> [kind |-> "response", resp |-> resp]
    [] outcome = "error" -> [kind |-> "none", resp |-> NoResponse]

\* MultiAgentCoordinator._run_agent_with_timeout: the value the task ends with
RunAgentWithTimeout(outcome, resp) ==
  CASE outcome = "ok" -> [kind |-> "response", resp |-> resp]
    [] outcome = "timeout" -> [kind |-> "none", resp |-> NoResponse]
    [] outcome = "error" -> [kind |-> "none", resp |-> NoResponse]

\* results collected last task first
GatherReversed(tasks) ==
  [i \in 1..Len(tasks) |-> tasks[Len(tasks) + 1 - i]]

\* asyncio.gather(*tasks, return_exceptions=True): results in task order
GatherResults(tasks) ==
  [i \in 1..Len(tasks) |-> tasks[i]]

\* run_parallel_analysis, the filter loop over the gathered results
FilterSuccessful(results) ==
  LET kept == SelectSeq(results, LAMBDA r : r.kind = "response")
  IN [j \in 1..Len(kept) |-> kept[j].resp]

\* the loop body without the except Exception clause
SeqHandleNoExcept(outcome) ==
  CASE outcome = "ok" -> "append"
    [] outcome = "timeout" -> "skip"
    [] outcome = "error" -> "raise"

\* a late answer appended all the same
SeqHandleKeepLate(outcome) ==
  CASE outcome = "ok" -> "append"
    [] outcome = "timeout" -> "append"
    [] outcome = "error" -> "skip"

\* run_sequential_dialogue: what the loop body does with one agent's outcome
SeqHandle(outcome) ==
  CASE outcome = "ok" -> "append"
    [] outcome = "timeout" -> "skip"
    [] outcome = "error" -> "skip"

\* the context without the most recent response
SeqContextStale(responses) ==
  IF Len(responses) <= 1 THEN NoneList
  ELSE SomeList(SubSeq(responses, 1, Len(responses) - 1))

\* run_sequential_dialogue: other_agent_responses=responses if responses else None
SeqContext(responses) ==
  IF responses = <<>> THEN NoneList ELSE SomeList(responses)

\* ids of the personas of the catalog (an agent carries its persona's id)
Catalog == {AgentList(NumPersonas)[i] : i \in 1..NumPersonas}

\* ids a client may send: the catalog's and one the catalog does not know
RequestIds == Catalog \cup {0}

SessionIds == 1..MaxSessions

\* the catalog's lookup by id: the persona, or None for an unknown id
GetPersonaById(id) == [some |-> id \in Catalog, id |-> id]

\* AgentFactory.auto_select_agents / select_agents_by_criteria: the personas
\* that pass the filters of the idea, best first, cut to max_agents
AutoSelectAgents(matching, max_agents) ==
  LET ranked == SelectSeq(AgentList(NumPersonas), LAMBDA id : id \in matching)
  IN SubSeq(ranked, 1, IF Len(ranked) < max_agents THEN Len(ranked) ELSE max_agents)

\* ResearchSessionCreate, reduced to what the selection reads: `matching` is
\* the set of personas the idea's industry and expertise terms match
CreateRequests ==
  {[auto_select_agents |-> TRUE, selected_agents |-> NoneList,
    matching |-> m, max_agents |-> k] :
      m \in SUBSET Catalog, k \in 1..NumPersonas}
  \cup
  {[auto_select_agents |-> FALSE, selected_agents |-> sel,
    matching |-> {}, max_agents |-> 1] :
      sel \in {NoneList} \cup
              {SomeList(l) : l \in UNION {[1..n -> RequestIds] : n \in 0..MaxSelected}}}

\* the personas a request resolves to
UsableAgents(request) ==
  IF request.auto_select_agents
  THEN AutoSelectAgents(request.matching, request.max_agents)
  ELSE SelectSeq(request.selected_agents.val, LAMBDA id : GetPersonaById(id).some)

\* the selection without the check of the resolved list
SelectPersonasUnchecked(request) ==
  IF ~request.auto_select_agents /\ Len(request.selected_agents.val) = 0
  THEN [status_code |-> "400", personas |-> <<>>]
  ELSE [status_code |-> "200", personas |-> UsableAgents(request)]

\* create_research_session, the selection of the agents: the personas the
\* session is created with, or the 400 the request is refused with
SelectPersonas(request) ==
  IF ~request.auto_select_agents /\ Len(request.selected_agents.val) = 0
  THEN [status_code |-> "400", personas |-> <<>>]
  ELSE IF Len(UsableAgents(request)) = 0
  THEN [status_code |-> "400", personas |-> <<>>]
  ELSE [status_code |-> "200", personas |-> UsableAgents(request)]

\* ---------------------------------------------------------- session summary
\* AgentSentiment
Sentiments == {"very_positive", "positive", "neutral", "cautious", "negative"}

\* the elements of a list
SeqRange(l) == {l[i] : i \in DOMAIN l}

\* a list as a bag: element -> number of occurrences
SeqToBag(l) == [e \in SeqRange(l) |-> Cardinality({i \in DOMAIN l : l[i] = e})]

\* the subsets of S that lack d of its elements
RECURSIVE Without(_, _)
Without(S, d) ==
  IF d = 0 THEN {S} ELSE UNION {Without(S \ {x}, d - 1) : x \in S}

\* sum(len(r.agent_responses) for r in self.rounds)
RECURSIVE TotalResponses(_)
TotalResponses(rs) ==
  IF rs = <<>> THEN 0
  ELSE Len(rs[1].agent_responses) + TotalResponses(Tail(rs))

\* all_consensus: the consensus_points of every round, in round order
RECURSIVE AllConsensus(_)
AllConsensus(rs) ==
  IF rs = <<>> THEN <<>>
  ELSE rs[1].consensus_points \o AllConsensus(Tail(rs))

\* the first ten entries of all_consensus as they stand
KeyInsightsNoSet(all_consensus) ==
  {SeqToBag(SubSeq(all_consensus, 1,
      IF Len(all_consensus) < KeyInsightsCap THEN Len(all_consensus) ELSE KeyInsightsCap))}

\* list(set(all_consensus))[:10]: the values the expression can have.  The
\* iteration order of a set of strings is not fixed, so any ten of the
\* distinct points can be the ones kept; a value is given as a bag because
\* the order of the kept points is arbitrary as well
KeyInsights(all_consensus) ==
  LET S == SeqRange(all_consensus)
      d == IF Cardinality(S) > KeyInsightsCap THEN Cardinality(S) - KeyInsightsCap ELSE 0
  IN {[e \in T |-> 1] : T \in Without(S, d)}

EmptySummary == [present |-> FALSE]

\* total_rounds counts the completed rounds only
SessionSummaryCompleted(rs, total_agents, key_insights) ==
  IF rs = <<>> THEN EmptySummary
  ELSE [present |-> TRUE,
        total_rounds |-> Len(SelectSeq(rs, LAMBDA r : r.status = "completed")),
        total_agents |-> total_agents,
        total_responses |-> TotalResponses(rs),
        key_insights |-> key_insights,
        final_sentiment |-> rs[Len(rs)].overall_sentiment,
        rounds |-> [i \in DOMAIN rs |->
                     [round_number |-> rs[i].round_number,
                      agent_count |-> Len(rs[i].agent_responses),
                      sentiment |-> rs[i].overall_sentiment,
                      status |-> rs[i].status]]]

\* get_session_summary: the dictionary returned for the history rs, with
\* key_insights one of the values of list(set(all_consensus))[:10]
SessionSummary(rs, total_agents, key_insights) ==
  IF rs = <<>> THEN EmptySummary
  ELSE [present |-> TRUE,
        total_rounds |-> Len(rs),
        total_agents |-> total_agents,
        total_responses |-> TotalResponses(rs),
        key_insights |-> key_insights,
        final_sentiment |-> rs[Len(rs)].overall_sentiment,
        rounds |-> [i \in DOMAIN rs |->
                     [round_number |-> rs[i].round_number,
                      agent_count |-> Len(rs[i].agent_responses),
                      sentiment |-> rs[i].overall_sentiment,
                      status |-> rs[i].status]]]

\* a round of the history with the fields get_session_summary reads
SummaryRound(round_number, status, n, consensus_points, overall_sentiment) ==
  [round_number |-> round_number, status |-> status,
   agent_responses |-> [j \in 1..n |-> Analyze(AgentList(n)[j], round_number)],
   consensus_points |-> consensus_points,
   overall_sentiment |-> overall_sentiment]

\* consensus points are numbered; the list of a round is a run of up to
\* ConsensusCap consecutive points ending at point hi (empty for hi = 0)
ConsensusRun(hi) ==
  LET lo == IF hi > ConsensusCap THEN hi - ConsensusCap + 1 ELSE 1
  IN [j \in 1..(hi - lo + 1) |-> lo + j - 1]

\* what execute_round can leave as round i: a FAILED round keeps the neutral
\* sentiment and the empty consensus list it was created with
TallyRounds(i) ==
  {SummaryRound(i, "completed", n, <<>>, sent) :
      n \in 0..SummaryAgents, sent \in Sentiments}
  \cup {SummaryRound(i, "failed", n, <<>>, "neutral") : n \in 0..SummaryAgents}

ConsensusRounds(i) ==
  {SummaryRound(i, "completed", 1, ConsensusRun(hi), "neutral") : hi \in 0..NumPoints}

\* the histories of n rounds that differ in status, size and sentiment
RECURSIVE TallyHistories(_)
TallyHistories(n) ==
  IF n = 0 THEN {<<>>}
  ELSE {Append(h, r) : h \in TallyHistories(n - 1), r \in TallyRounds(n)}

\* the histories of n completed rounds that differ in their consensus points
RECURSIVE ConsensusHistories(_)
ConsensusHistories(n) ==
  IF n = 0 THEN {<<>>}
  ELSE {Append(h, r) : h \in ConsensusHistories(n - 1), r \in ConsensusRounds(n)}

\* -------------------------------------------------------------- synthesizer
\* common_opportunity_terms
CommonTerms == <<"market", "growth", "demand", "innovation", "potential">>

\* a string of one of the four lists of a response: its identity, and the
\* number of occurrences of each common term in its lower-cased text
NoMentions == [t \in SeqRange(CommonTerms) |-> 0]

Item(id) == [id |-> id, mentions |-> NoMentions]

Mentioning(mentions) == [id |-> 0, mentions |-> mentions]

\* a confidence_score is a multiple of 0.1, held as its number of tenths

\* an AgentResponse with the fields the synthesizer reads
AgentResponse(sentiment, opportunities, concerns, questions, recommendations, confidence_score) ==
  [sentiment |-> sentiment, opportunities |-> opportunities,
   concerns |-> concerns, questions |-> questions,
   recommendations |-> recommendations,
   confidence_score |-> confidence_score]

\* a response that carries a sentiment and empty lists
SynthResponse(sentiment) ==
  AgentResponse(sentiment, <<>>, <<>>, <<>>, <<>>, DefaultConfidence)

\* sentiment.value.replace('_', ' ')
SentimentText(sentiment) ==
  IF sentiment = "very_positive" THEN "very positive" ELSE sentiment

\* Counter(r.sentiment for r in responses)[sentiment]
CountOf(responses, sentiment) ==
  Cardinality({i \in DOMAIN responses : responses[i].sentiment = sentiment})

\* sentiment_counts.most_common(1)[0]: the highest count; among equal counts
\* the sentiment met first in the list
MostCommon(responses) ==
  LET best == {i \in DOMAIN responses :
                 \A j \in DOMAIN responses :
                   CountOf(responses, responses[j].sentiment)
                     <= CountOf(responses, responses[i].sentiment)}
      first == CHOOSE i \in best : \A j \in best : i <= j
  IN [sentiment |-> responses[first].sentiment,
      count |-> CountOf(responses, responses[first].sentiment)]

\* the consensus line on the sentiment
SentimentLine(count, total, sentiment) ==
  [kind |-> "sentiment", count |-> count, total |-> total,
   sentiment |-> SentimentText(sentiment)]

KeywordLine(term) == [kind |-> "keyword", term |-> term]

\* the occurrences of a term in ' '.join(r.opportunities)
RECURSIVE ItemsCount(_, _)
ItemsCount(items, term) ==
  IF items = <<>> THEN 0
  ELSE Head(items).mentions[term] + ItemsCount(Tail(items), term)

\* all_opportunities.count(term): the opportunities are joined with
\* spaces, and no common term holds a space
RECURSIVE TermCount(_, _)
TermCount(responses, term) ==
  IF responses = <<>> THEN 0
  ELSE ItemsCount(Head(responses).opportunities, term)
       + TermCount(Tail(responses), term)

TermCounts(responses) ==
  [t \in SeqRange(CommonTerms) |-> TermCount(responses, t)]

\* the keyword lines of _find_consensus; `count >= len(responses) * 0.5` is
\* `2 count >= len`
KeywordLines(total, term_counts) ==
  LET hit == SelectSeq(CommonTerms, LAMBDA t : term_counts[t] * 2 >= total)
  IN [j \in DOMAIN hit |-> KeywordLine(hit[j])]

\* the agreement must exceed 60%
FindConsensusStrict(responses) ==
  LET total == Len(responses)
      top == MostCommon(responses)
      line == IF top.count * 10 > total * 6
              THEN <<SentimentLine(top.count, total, top.sentiment)>> ELSE <<>>
      items == line \o KeywordLines(total, TermCounts(responses))
  IN SubSeq(items, 1, IF Len(items) < ConsensusCap THEN Len(items) ELSE ConsensusCap)

\* consensus_items is returned whole
FindConsensusUncapped(responses) ==
  LET total == Len(responses)
      top == MostCommon(responses)
      line == IF top.count * 10 >= total * 6
              THEN <<SentimentLine(top.count, total, top.sentiment)>> ELSE <<>>
  IN line \o KeywordLines(total, TermCounts(responses))

\* _find_consensus; `count >= len(responses) * 0.6` is `10 count >= 6 len`
FindConsensus(responses) ==
  LET total == Len(responses)
      top == MostCommon(responses)
      line == IF top.count * 10 >= total * 6
              THEN <<SentimentLine(top.count, total, top.sentiment)>> ELSE <<>>
      items == line \o KeywordLines(total, TermCounts(responses))
  IN SubSeq(items, 1, IF Len(items) < ConsensusCap THEN Len(items) ELSE ConsensusCap)

\* two distinct sentiments count as a significant divergence
FindDivergentOpinionsTwo(responses) ==
  LET positive == SelectSeq([i \in DOMAIN responses |-> i], LAMBDA i :
                    responses[i].sentiment \in {"very_positive", "positive"})
      negative == SelectSeq([i \in DOMAIN responses |-> i], LAMBDA i :
                    responses[i].sentiment \in {"negative", "cautious"})
  IN IF /\ Cardinality({responses[i].sentiment : i \in DOMAIN responses}) >= 2
        /\ positive # <<>> /\ negative # <<>>
     THEN <<[topic |-> "Overall Assessment",
             viewpoint_a |-> positive[1], viewpoint_b |-> negative[1]]>>
     ELSE <<>>

\* _find_divergent_opinions: the pair of list positions the record is about
FindDivergentOpinions(responses) ==
  LET positive == SelectSeq([i \in DOMAIN responses |-> i], LAMBDA i :
                    responses[i].sentiment \in {"very_positive", "positive"})
      negative == SelectSeq([i \in DOMAIN responses |-> i], LAMBDA i :
                    responses[i].sentiment \in {"negative", "cautious"})
  IN IF /\ Cardinality({responses[i].sentiment : i \in DOMAIN responses}) >= 3
        /\ positive # <<>> /\ negative # <<>>
     THEN <<[topic |-> "Overall Assessment",
             viewpoint_a |-> positive[1], viewpoint_b |-> negative[1]]>>
     ELSE <<>>

\* sentiment_values
SentimentValue(sentiment) ==
  CASE sentiment = "very_positive" -> 2
    [] sentiment = "positive" -> 1
    [] sentiment = "neutral" -> 0
    [] sentiment = "cautious" -> -1
    [] sentiment = "negative" -> -2

RECURSIVE SumOfValues(_)
SumOfValues(responses) ==
  IF responses = <<>> THEN 0
  ELSE SentimentValue(responses[1].sentiment) + SumOfValues(Tail(responses))

\* an average of exactly 0.5 is not yet positive
CalculateOverallSentimentStrict(responses) ==
  LET sum2 == 2 * SumOfValues(responses)
      n == Len(responses)
  IN CASE sum2 >= 3 * n -> "very_positive"
       [] sum2 < 3 * n /\ sum2 > n -> "positive"
       [] sum2 <= n /\ sum2 > -n -> "neutral"
       [] sum2 <= -n /\ sum2 > -3 * n -> "cautious"
       [] sum2 <= -3 * n -> "negative"

\* _calculate_overall_sentiment; the average is compared as 2 sum against
\* 2 len times the threshold
CalculateOverallSentiment(responses) ==
  LET sum2 == 2 * SumOfValues(responses)
      n == Len(responses)
  IN CASE sum2 >= 3 * n -> "very_positive"
       [] sum2 < 3 * n /\ sum2 >= n -> "positive"
       [] sum2 < n /\ sum2 > -n -> "neutral"
       [] sum2 <= -n /\ sum2 > -3 * n -> "cautious"
       [] sum2 <= -3 * n -> "negative"

\* the FeedbackSynthesis of an empty response list
EmptySynthesis(round_number) ==
  [raised |-> FALSE,
   round_number |-> round_number, total_agents |-> 0,
   consensus_insights |-> <<>>, divergent_opinions |-> <<>>,
   top_opportunities |-> <<>>, top_concerns |-> <<>>,
   priority_questions |-> <<>>, next_steps_suggested |-> <<>>,
   overall_sentiment |-> "neutral", confidence_level |-> "low"]

\* all_items: the lists of the agents, one after the other
RECURSIVE Flatten(_)
Flatten(item_lists) ==
  IF item_lists = <<>> THEN <<>>
  ELSE Head(item_lists) \o Flatten(Tail(item_lists))

\* Counter(all_items)[item]
ItemCount(all_items, item) ==
  Cardinality({i \in DOMAIN all_items : all_items[i] = item})

\* the position at which the counter met the item first
FirstIndex(all_items, item) ==
  CHOOSE i \in DOMAIN all_items :
    all_items[i] = item /\ \A j \in 1..(i - 1) : all_items[j] # item

\* the keys of the counter, in the order in which it met them
Keys(all_items) ==
  LET first == {i \in DOMAIN all_items : FirstIndex(all_items, all_items[i]) = i}
      Nth(k) == CHOOSE i \in first : Cardinality({j \in first : j < i}) = k - 1
  IN [k \in 1..Cardinality(first) |-> all_items[Nth(k)]]

\* the items are ranked by their first occurrence alone
AggregateItemsByOccurrence(item_lists, top_n) ==
  LET keys == Keys(Flatten(item_lists))
  IN SubSeq(keys, 1, IF Len(keys) < top_n THEN Len(keys) ELSE top_n)

\* _aggregate_items; Counter.most_common(top_n) sorts the keys by descending
\* count and keeps the order of the keys among equal counts
AggregateItems(item_lists, top_n) ==
  LET all_items == Flatten(item_lists)
      keys == Keys(all_items)
      Ahead(i, j) == \/ ItemCount(all_items, keys[i]) > ItemCount(all_items, keys[j])
                     \/ /\ ItemCount(all_items, keys[i]) = ItemCount(all_items, keys[j])
                        /\ i < j
      Place(i) == 1 + Cardinality({j \in DOMAIN keys : Ahead(j, i)})
      sorted == [k \in DOMAIN keys |-> keys[CHOOSE i \in DOMAIN keys : Place(i) = k]]
  IN SubSeq(sorted, 1, IF Len(sorted) < top_n THEN Len(sorted) ELSE top_n)

\* [r.<field> for r in responses]
FieldLists(responses, field) == [i \in DOMAIN responses |-> responses[i][field]]

\* ---- IEEE 754 binary64 arithmetic on confidence scores.  A double v is held
\* as the pair (t, k) of integers with v = (t + k / 2^56) / 10: t tenths and
\* an error of k units.  Every sum of up to six scores is a pair of small
\* integers.
\* the error of the double nearest to t / 10, t in 0..10
TenthError(t) == <<0, 4, 8, -8, 16, 0, -16, -32, 32, 16, 0>>[t + 1]

\* the literal t / 10 of the source
Double(t) == [t |-> t, k |-> TenthError(t)]

\* the binade of the value: the unit in the last place is 10 * 2^j units
Binade(t, k) ==
  IF t > 40 \/ (t = 40 /\ k >= 0) THEN 6
  ELSE IF t > 20 \/ (t = 20 /\ k >= 0) THEN 5
  ELSE IF t > 10 \/ (t = 10 /\ k >= 0) THEN 4
  ELSE IF t > 5 \/ (t = 5 /\ k >= 0) THEN 3
  ELSE IF t >= 3 THEN 2
  ELSE IF t = 2 THEN 1
  ELSE 0

\* 2^56 modulo 10 * 2^j, j in 0..7
TwoTo56Mod(j) == <<6, 16, 16, 16, 96, 256, 256, 256>>[j + 1]

Pow2(j) == <<1, 2, 4, 8, 16, 32, 64, 128>>[j + 1]

\* round to nearest, ties to the even significand
RoundToDouble(t, k) ==
  IF t = 0 /\ k = 0 THEN [t |-> 0, k |-> 0]
  ELSE LET j == Binade(t, k)
           G == 10 * Pow2(j)
           r == (t * TwoTo56Mod(j) + k) % G
           r2 == (t * TwoTo56Mod(j + 1) + k) % (2 * G)
       IN IF 2 * r < G THEN [t |-> t, k |-> k - r]
          ELSE IF 2 * r > G THEN [t |-> t, k |-> k + G - r]
          ELSE IF r2 = r THEN [t |-> t, k |-> k - r]
          ELSE [t |-> t, k |-> k + G - r]

\* x + y of two doubles
FloatAdd(x, y) == RoundToDouble(x.t + y.t, x.k + y.k)

\* sum(r.confidence_score for r in responses): the scores are added from
\* the left, each partial sum rounded
RECURSIVE FloatSumFrom(_, _)
FloatSumFrom(acc, responses) ==
  IF responses = <<>> THEN acc
  ELSE FloatSumFrom(FloatAdd(acc, Double(Head(responses).confidence_score)),
                    Tail(responses))

FloatSum(responses) == FloatSumFrom(Double(0), responses)

\* whether the significand of the double nearest to t / 10 is even
EvenSignificand(t) == t = 8

\* `sum / n >= t / 10` in doubles: the quotient rounds to a double at or
\* above the literal exactly when the sum is at or above n times the point
\* half-way between the literal and the double below it (40 units below),
\* the half-way point itself rounding to the literal when its significand
\* is even
QuotientAtLeast(sum, n, t) ==
  IF sum.t # n * t THEN sum.t > n * t
  ELSE \/ sum.k > n * (TenthError(t) - 40)
       \/ sum.k = n * (TenthError(t) - 40) /\ EvenSignificand(t)

\* avg_confidence = sum(...) / len(responses), then _confidence_to_level
ConfidenceLevel(responses) ==
  LET sum == FloatSum(responses)
      n == Len(responses)
  IN IF QuotientAtLeast(sum, n, 8) THEN "high"
     ELSE IF QuotientAtLeast(sum, n, 6) THEN "medium"
     ELSE "low"

\* all_items is the list of the first agent, which extend() then grows
ResponsesAfterExtendInPlace(responses) ==
  IF responses = <<>> THEN responses
  ELSE [responses EXCEPT ![1].opportunities = Flatten(FieldLists(responses, "opportunities"))]

\* the caller's list after synthesize returned: the function and its
\* helpers build new lists and counters and assign to none of the lists
\* and responses they are given
ResponsesAfterSynthesize(responses) == responses

\* the FeedbackSynthesis of a non-empty list
NonEmptySynthesis(responses, round_number) ==
  [raised |-> FALSE,
   round_number |-> round_number, total_agents |-> Len(responses),
   consensus_insights |-> FindConsensus(responses),
   divergent_opinions |-> FindDivergentOpinions(responses),
   top_opportunities |-> AggregateItems(FieldLists(responses, "opportunities"), TopItems),
   top_concerns |-> AggregateItems(FieldLists(responses, "concerns"), TopItems),
   priority_questions |-> AggregateItems(FieldLists(responses, "questions"), TopItems),
   next_steps_suggested |-> AggregateItems(FieldLists(responses, "recommendations"), TopNextSteps),
   overall_sentiment |-> CalculateOverallSentiment(responses),
   confidence_level |-> ConfidenceLevel(responses)]

\* no early return: most_common(1)[0] of an empty counter raises IndexError
SynthesizeUnguarded(responses, round_number) ==
  IF responses = <<>> THEN [raised |-> TRUE]
  ELSE NonEmptySynthesis(responses, round_number)

\* ResponseSynthesizer.synthesize
SynthesizeResponses(responses, round_number) ==
  IF responses = <<>> THEN EmptySynthesis(round_number)
  ELSE NonEmptySynthesis(responses, round_number)

\* ---- the inputs synthesize is applied to
SynthInput(responses, round_number) ==
  [responses |-> responses, round_number |-> round_number]

\* a list of sentiments, the lists of the responses empty
SentimentResponses(l) == [i \in DOMAIN l |-> SynthResponse(l[i])]

\* the sentiments of n agents who agree, and of n agents no two of whom
\* follow each other with the same sentiment
Agreeing(n) == [i \in 1..n |-> "positive"]

Disagreeing(n) == [i \in 1..n |-> <<"positive", "negative", "neutral">>[1 + (i % 3)]]

\* the opportunity of the first agent names each common term up to two
\* times; the other agents all name no term, or all name each term once
Once == [t \in SeqRange(CommonTerms) |-> 1]

KeywordResponse(sentiment, mentions) ==
  AgentResponse(sentiment, <<Mentioning(mentions)>>, <<>>, <<>>, <<>>, DefaultConfidence)

KeywordResponses(l, first, rest) ==
  [i \in DOMAIN l |-> KeywordResponse(l[i], IF i = 1 THEN first ELSE rest)]

\* the strings lo..hi, in this order
Run(lo, hi) == [i \in 1..(hi + 1 - lo) |-> Item(lo + i - 1)]

Runs == {Run(lo, hi) : lo \in RunStarts, hi \in RunEnds}

Reverse(l) == [i \in DOMAIN l |-> l[Len(l) + 1 - i]]

\* each agent lists a run of the strings 1..NumItems as its opportunities
\* and recommendations, the same run backwards as its concerns, and the run
\* but its first string as its questions
ItemResponse(run) ==
  AgentResponse("neutral", run, Reverse(run),
                IF run = <<>> THEN <<>> ELSE Tail(run), run, DefaultConfidence)

ItemResponses(l) == [i \in DOMAIN l |-> ItemResponse(l[i])]

\* the agents agree on the sentiment and differ in their confidence
ConfidenceResponse(confidence_score) ==
  AgentResponse("neutral", <<>>, <<>>, <<>>, <<>>, confidence_score)

ConfidenceResponses(l) == [i \in DOMAIN l |-> ConfidenceResponse(l[i])]

\* -------------------------------------------------------------- base agent
\* One line of the text of the generation collaborator, after strip(), by
\* what _parse_response reads of it:
\*   markers   the sections whose marker ('**Summary**' or 'Summary:', ...)
\*             occurs in the line
\*   keywords  the sentiment keywords that occur in the lower-cased line;
\*             "very_positive" stands for 'very_positive' or 'very positive',
\*             and a line that holds it holds 'positive' too
\*   number    the value, in tenths, of the first match of [0-9]*\.?[0-9]+
\*             in the line, NoNumber when there is no match
\*   listed    the line starts with '-', a bullet, '*' or a digit
\*   content   the line (0 for the empty line)
\*   cleaned   the line after lstrip('-*0123456789. ') (0 for the empty string)
NoNumber == -1

Line(markers, keywords, number, listed, content, cleaned) ==
  [markers |-> markers, keywords |-> keywords, number |-> number,
   listed |-> listed, content |-> content, cleaned |-> cleaned]

\* the sections in the order in which the markers are tried
Sections ==
  <<"summary", "opportunities", "concerns", "questions", "recommendations",
    "sentiment", "confidence">>

ListSections == {"opportunities", "concerns", "questions", "recommendations"}

\* the if/elif chain of the markers: the first section whose marker occurs
HeaderOf(line) ==
  IF \A i \in DOMAIN Sections : Sections[i] \notin line.markers THEN "none"
  ELSE Sections[CHOOSE i \in DOMAIN Sections :
                  /\ Sections[i] \in line.markers
                  /\ \A j \in 1..(i - 1) : Sections[j] \notin line.markers]

\* the keywords are tried from the weakest to the strongest
SentimentOfReversed(keywords, sentiment) ==
  IF "negative" \in keywords THEN "negative"
  ELSE IF "cautious" \in keywords THEN "cautious"
  ELSE IF "positive" \in keywords THEN "positive"
  ELSE IF "very_positive" \in keywords THEN "very_positive"
  ELSE sentiment

\* the if/elif chain of the keywords of a sentiment line; sentiment is the
\* value parsed so far, kept when the line names no keyword
SentimentOf(keywords, sentiment) ==
  IF "very_positive" \in keywords THEN "very_positive"
  ELSE IF "positive" \in keywords THEN "positive"
  ELSE IF "cautious" \in keywords THEN "cautious"
  ELSE IF "negative" \in keywords THEN "negative"
  ELSE sentiment

\* the score is stored as it is read
Unclamped(score) == score

\* min(max(score, 0.0), 1.0), in tenths
Clamp(score) == IF score < 0 THEN 0 ELSE IF score > 10 THEN 10 ELSE score

\* the confidence of a confidence line; confidence_score is the value parsed
\* so far, kept when the line holds no number
ConfidenceOf(number, confidence_score) ==
  IF number = NoNumber THEN confidence_score ELSE Clamp(number)

\* lines met before the first header belong to the summary
InitialSectionSummary == "summary"

\* current_section = None
InitialSection == "none"

\* the dictionary _parse_response starts from; the summary is held as the
\* list of the lines it is joined from
DefaultParsed ==
  [summary |-> <<>>, opportunities |-> <<>>, concerns |-> <<>>,
   questions |-> <<>>, recommendations |-> <<>>, sentiment |-> "neutral",
   confidence_score |-> DefaultConfidence]

\* the body of the loop over the lines, from the state (current_section,
\* parsed) on
RECURSIVE ParseLines(_, _, _)
ParseLines(lines, current_section, parsed) ==
  IF lines = <<>> THEN parsed
  ELSE LET line == Head(lines)
           header == HeaderOf(line)
       IN IF header = "sentiment"
          THEN ParseLines(Tail(lines), header,
                 [parsed EXCEPT !.sentiment = SentimentOf(line.keywords, @)])
          ELSE IF header = "confidence"
          THEN ParseLines(Tail(lines), header,
                 [parsed EXCEPT !.confidence_score = ConfidenceOf(line.number, @)])
          ELSE IF header # "none"
          THEN ParseLines(Tail(lines), header, parsed)
          ELSE IF current_section = "summary" /\ line.content # 0
          THEN ParseLines(Tail(lines), current_section,
                 [parsed EXCEPT !.summary = Append(@, line.content)])
          ELSE IF /\ current_section \in ListSections
                  /\ line.content # 0 /\ line.listed /\ line.cleaned # 0
          THEN ParseLines(Tail(lines), current_section,
                 [parsed EXCEPT ![current_section] = Append(@, line.cleaned)])
          ELSE ParseLines(Tail(lines), current_section, parsed)

\* BaseAgent._parse_response
ParseResponse(response_text) == ParseLines(response_text, InitialSection, DefaultParsed)

\* the AgentResponse analyze builds from the parsed dictionary
ParsedAgentResponse(parsed, response_text, round_number) ==
  [round_number |-> round_number, sentiment |-> parsed.sentiment,
   summary |-> parsed.summary, detailed_feedback |-> response_text,
   opportunities |-> parsed.opportunities, concerns |-> parsed.concerns,
   questions |-> parsed.questions, recommendations |-> parsed.recommendations,
   confidence_score |-> parsed.confidence_score]

\* what one generate call of the collaborator ends with
Generated(response_text) == [raised |-> FALSE, response_text |-> response_text]

GenerateFailed == [raised |-> TRUE, response_text |-> <<>>]

\* what analyze leaves behind
Raised(conversation_history) ==
  [raised |-> TRUE, error |-> "generation", response |-> NoResponse,
   conversation_history |-> conversation_history]

Answered(response, conversation_history, round_number) ==
  [raised |-> FALSE, error |-> "none", response |-> response,
   conversation_history |->
     Append(conversation_history, [round |-> round_number, response |-> response])]

\* the failure of the collaborator is caught and the text taken as empty
AnalyzeEffectCaught(generated, round_number, conversation_history) ==
  Answered(ParsedAgentResponse(ParseResponse(generated.response_text),
                               generated.response_text, round_number),
           conversation_history, round_number)

\* BaseAgent.analyze from the generate call on: the exception of the
\* collaborator leaves analyze at the await; otherwise the text is parsed,
\* the response built and the round recorded
AnalyzeEffect(generated, round_number, conversation_history) ==
  IF generated.raised THEN Raised(conversation_history)
  ELSE Answered(ParsedAgentResponse(ParseResponse(generated.response_text),
                                    generated.response_text, round_number),
                conversation_history, round_number)

\* ---- the lines the texts of the collaborator are made of
\* a sentence that names no section, though it holds a keyword and a number
Sentence == Line({}, {"negative"}, 3, FALSE, 1, 1)

\* '- <item>'
Bullet == Line({}, {}, NoNumber, TRUE, 2, 2)

\* '-'
Dash == Line({}, {}, NoNumber, TRUE, 3, 0)

Blank == Line({}, {}, NoNumber, FALSE, 0, 0)

SummaryHeader == Line({"summary"}, {}, NoNumber, FALSE, 4, 4)

OpportunitiesHeader == Line({"opportunities"}, {}, NoNumber, FALSE, 5, 5)

\* '**Sentiment**: ...' with the keywords named
SentimentHeader(keywords) == Line({"sentiment"}, keywords, NoNumber, FALSE, 6, 6)

KeywordSets ==
  {{}, {"very_positive", "positive"}, {"positive", "cautious"},
   {"cautious", "negative"}, {"negative"}}

\* '**Confidence Score**: ...' with the first number named, in tenths
ConfidenceHeader(number) == Line({"confidence"}, {}, number, FALSE, 7, 7)

Numbers == {NoNumber, 5, 15}

\* 'Sentiment: positive, Confidence: 0.9'
SentimentAndConfidence == Line({"sentiment", "confidence"}, {"positive"}, 9, FALSE, 8, 8)

Lines ==
  {Sentence, Bullet, Dash, Blank, SummaryHeader, OpportunitiesHeader,
   SentimentAndConfidence}
    \cup {SentimentHeader(k) : k \in KeywordSets}
    \cup {ConfidenceHeader(n) : n \in Numbers}

\* ---------------------------------------------------- feedback loop manager
\* FeedbackRound.synthesis = None
NoSynthesis ==
  [some |-> FALSE, round_number |-> 0, total_agents |-> 0,
   consensus_insights |-> <<>>, divergent_opinions |-> <<>>,
   overall_sentiment |-> "neutral"]

\* what the responses of a round say: every answer is taken to be the one
\* the parser gives a text that names no section
ResponseContents(responses) ==
  [i \in DOMAIN responses |-> SynthResponse(DefaultParsed.sentiment)]

\* ResponseSynthesizer.synthesize, the fields the round bookkeeping depends
\* on: those of the empty synthesis for no response, computed from the
\* responses otherwise
Synthesize(responses, round_number) ==
  LET contents == ResponseContents(responses)
      empty == EmptySynthesis(round_number)
  IN IF contents = <<>>
     THEN [some |-> TRUE, round_number |-> empty.round_number,
           total_agents |-> empty.total_agents,
           consensus_insights |-> empty.consensus_insights,
           divergent_opinions |-> empty.divergent_opinions,
           overall_sentiment |-> empty.overall_sentiment]
     ELSE [some |-> TRUE, round_number |-> round_number,
           total_agents |-> Len(contents),
           consensus_insights |-> FindConsensus(contents),
           divergent_opinions |-> FindDivergentOpinions(contents),
           overall_sentiment |-> CalculateOverallSentiment(contents)]

\* execute_round: the divergent_points of the round
DivergentPoints(divergent_opinions) ==
  [i \in DOMAIN divergent_opinions |->
     [topic |-> divergent_opinions[i].topic,
      views |-> <<divergent_opinions[i].viewpoint_a,
                  divergent_opinions[i].viewpoint_b>>]]

\* execute_round: the responses are attached and the round takes the
\* insights, the divergent points and the sentiment of its synthesis
WithSynthesis(fr, responses) ==
  LET synthesis == Synthesize(responses, fr.round_number)
  IN [fr EXCEPT !.agent_responses = responses,
                !.synthesis = synthesis,
                !.consensus_points = synthesis.consensus_insights,
                !.divergent_points = DivergentPoints(synthesis.divergent_opinions),
                !.overall_sentiment = synthesis.overall_sentiment]

\* numbering by the rounds that completed
NextRoundNumberCompleted(rs) ==
  Cardinality({i \in 1..Len(rs) : rs[i].status = "completed"}) + 1

\* execute_round: round_number = len(self.rounds) + 1
NextRoundNumber(rs) == Len(rs) + 1

\* execute_round: the FeedbackRound created before the try block
NewFeedbackRound(round_number) ==
  [round_number |-> round_number,
   status |-> "in_progress",
   agent_responses |-> <<>>,
   synthesis |-> NoSynthesis,
   consensus_points |-> <<>>,
   divergent_points |-> <<>>,
   overall_sentiment |-> "neutral",
   completed_at |-> "None"]

\* the responses of the last two rounds instead of the last round's
PreviousResponsesLastTwo(rs, round_number) ==
  IF round_number > 2
  THEN SomeList(rs[Len(rs) - 1].agent_responses \o rs[Len(rs)].agent_responses)
  ELSE IF round_number > 1 THEN SomeList(rs[Len(rs)].agent_responses) ELSE NoneList

\* the first round's responses instead of the last round's
PreviousResponsesFirst(rs, round_number) ==
  IF round_number > 1 THEN SomeList(rs[1].agent_responses) ELSE NoneList

\* execute_round: previous_responses
PreviousResponses(rs, round_number) ==
  IF round_number > 1 THEN SomeList(rs[Len(rs)].agent_responses) ELSE NoneList

\* the except clause leaves the status of the round untouched
ExecuteRoundTailOpen(fr, coord, responses, fault) ==
  IF coord = "raised"
  THEN [fr EXCEPT !.completed_at = "set"]
  ELSE IF fault = "synth"
  THEN [fr EXCEPT !.agent_responses = responses, !.completed_at = "set"]
  ELSE [WithSynthesis(fr, responses) EXCEPT
          !.status = "completed", !.completed_at = "set"]

\* the responses attached only after a successful synthesis
ExecuteRoundTailLate(fr, coord, responses, fault) ==
  IF coord = "raised" \/ fault = "synth"
  THEN [fr EXCEPT !.status = "failed", !.completed_at = "set"]
  ELSE [WithSynthesis(fr, responses) EXCEPT
          !.status = "completed", !.completed_at = "set"]

\* the round marked completed before it is synthesized
ExecuteRoundTailEager(fr, coord, responses, fault) ==
  IF coord = "raised"
  THEN [fr EXCEPT !.status = "failed", !.completed_at = "set"]
  ELSE IF fault = "synth"
  THEN [fr EXCEPT !.agent_responses = responses,
                  !.status = "completed", !.completed_at = "set"]
  ELSE [WithSynthesis(fr, responses) EXCEPT
          !.status = "completed", !.completed_at = "set"]

\* a round without a response is marked failed
ExecuteRoundTailNoEmpty(fr, coord, responses, fault) ==
  IF coord = "raised"
  THEN [fr EXCEPT !.status = "failed", !.completed_at = "set"]
  ELSE IF fault = "synth" \/ responses = <<>>
  THEN [fr EXCEPT !.agent_responses = responses,
                  !.status = "failed", !.completed_at = "set"]
  ELSE [WithSynthesis(fr, responses) EXCEPT
          !.status = "completed", !.completed_at = "set"]

\* execute_round, from the return of the coordinator call to the end of the
\* try/except: coord is how the coordinator call ended, fault the unexpected
\* exception (if any) of this round
ExecuteRoundTail(fr, coord, responses, fault) ==
  IF coord = "raised"
  THEN [fr EXCEPT !.status = "failed", !.completed_at = "set"]
  ELSE IF fault = "synth"
  THEN [fr EXCEPT !.agent_responses = responses,
                  !.status = "failed", !.completed_at = "set"]
  ELSE [WithSynthesis(fr, responses) EXCEPT
          !.status = "completed", !.completed_at = "set"]

\* no except clause: the exception of the try block leaves execute_round
ExecuteRoundRaises(coord, fault) ==
  IF coord = "raised" \/ fault = "synth" THEN "raised" ELSE "returned"

\* execute_round: how the call ends.  The try block is followed by
\* `except Exception`, which catches the failure of the coordinator call and
\* of the synthesis alike; the append and the return come after it
ExecuteRoundEnds(coord, fault) == "returned"

\* start_feedback_round: FeedbackRoundResponse(round=..., synthesis=...) is
\* built from the returned round; its synthesis field is a required model
HttpStatusFor(round) == IF round.synthesis.some THEN "200" ELSE "500"

\* get_feedback_round: the round stored under round_number, or 404
GetFeedbackRound(rs, round_number) ==
  IF round_number < 1 \/ round_number > Len(rs)
  THEN [status_code |-> "404", round |-> NewFeedbackRound(0)]
  ELSE [status_code |-> "200", round |-> rs[round_number]]

\* ------------------------------------------------------------------- state
VARIABLES
  agents,     \* FeedbackLoopManager.agents / MultiAgentCoordinator.agents
  rounds,     \* FeedbackLoopManager.rounds
  inv,        \* per slot: the frame of one execute_round invocation
  active_sessions,  \* research.py active_sessions: session id -> entry
  reply,      \* the answer to the last request on the session store
  call,       \* the last application of a pure function: input and result
  agent_cache \* AgentFactory._agent_cache and the agents a caller built:
              \* agent id -> the agent's conversation_history

vars == <<agents, rounds, inv, active_sessions, reply, call, agent_cache>>

\* the session whose FeedbackLoopManager is `agents`, `rounds`
session_id == 1

\* the entry create_research_session stores
NewSession(selected_agents) ==
  [status |-> "created", current_round |-> 0, selected_agents |-> selected_agents]

NoReply ==
  [seq |-> 0, op |-> "none", status_code |-> "none", session_id |-> 0, usable |-> 0]

NoCall == [fn |-> "none"]

AgentIdx == DOMAIN agents

IdleFrame ==
  [pc |-> "idle", mode |-> "parallel", requested |-> "parallel",
   fr |-> NewFeedbackRound(0),
   previous_responses |-> NoneList,
   outcome |-> [i \in AgentIdx |-> "pending"],
   tasks |-> [i \in AgentIdx |-> Pending],
   reordered |-> FALSE,
   late |-> [i \in AgentIdx |-> FALSE],
   k |-> 0,
   responses |-> <<>>,
   calls |-> <<>>,
   coord |-> "none",
   fault |-> "none",
   ret |-> "none",
   http |-> "none"]

\* BaseAgent.__init__: every agent of the list starts with an empty
\* conversation_history
NewAgents(ids) == [a \in SeqRange(ids) |-> <<>>]

\* the entry analyze appends to the conversation history
HistoryEntry(response) == [round |-> response.round_number, response |-> response]

\* the timed-out call is recorded like an answered one
RecordAnalyzeUncancelled(o, history, response) ==
  IF o = "error" THEN history ELSE Append(history, HistoryEntry(response))

\* analyze awaited inside wait_for: a call that returns has appended its
\* entry; a call the collaborator failed left analyze at the await, and a
\* call that timed out was cancelled at the await, before the append
RecordAnalyze(o, history, response) ==
  IF o = "ok" THEN Append(history, HistoryEntry(response)) ELSE history

\* the cache after an analyze call on agent a ended with outcome o; the
\* history of an agent the cache does not hold is not kept
RecordInCache(cache, a, o, response) ==
  IF a \in DOMAIN cache
  THEN [cache EXCEPT ![a] = RecordAnalyze(o, @, response)]
  ELSE cache

\* the histories of the agents after the rounds rs in which every agent that
\* answered is in the round's response list
HistoriesAfter(ids, rs) ==
  [a \in SeqRange(ids) |->
     LET idx == SelectSeq([i \in 1..Len(rs) |-> i],
                  LAMBDA i : \E j \in DOMAIN rs[i].agent_responses :
                               rs[i].agent_responses[j].agent_id = a)
     IN [j \in 1..Len(idx) |-> HistoryEntry(Analyze(a, rs[idx[j]].round_number))]]

Init ==
  /\ agents = AgentList(SessionAgents)
  /\ rounds = <<>>
  /\ inv = [q \in Slots |-> IdleFrame]
  /\ active_sessions = (session_id :> NewSession(agents))
  /\ reply = NoReply
  /\ call = NoCall
  /\ agent_cache = <<>>

InFlight(q) == inv[q].pc \in {"gather", "seq"}

\* ------------------------------------------------------------- operations
\* every agent is given a second task
CreateTasksTwice(previous_responses) ==
  [j \in 1..(2 * Len(agents)) |->
     [agent |-> 1 + ((j - 1) % Len(agents)), ctx |-> previous_responses,
      ref |-> "previous"]]

\* run_parallel_analysis: one task per agent of the list, each making one
\* analyze call with the previous responses.  ref names the list object the
\* call is given: here the caller's previous_responses.
CreateTasks(previous_responses) ==
  [i \in AgentIdx |->
     [agent |-> i, ctx |-> previous_responses, ref |-> "previous"]]

\* run_sequential_dialogue: the object passed as other_agent_responses is the
\* loop's own responses list, or None while that list is empty
SeqContextRef(responses) == IF responses = <<>> THEN "none" ELSE "responses"

\* the analyze call the sequential loop makes on agent k
SeqCall(k, responses) ==
  [agent |-> k, ctx |-> SeqContext(responses), ref |-> SeqContextRef(responses)]

\* what the list object given to call c of frame f holds now
ContextNow(f, c) ==
  IF c.ref = "responses" THEN f.responses
  ELSE IF c.ctx.some THEN c.ctx.val ELSE <<>>

\* the sequential loop starts from the previous round's responses
SequentialStartPrevious(previous_responses) ==
  IF previous_responses.some THEN previous_responses.val ELSE <<>>

\* execute_round hands run_sequential_dialogue no previous responses and the
\* dialogue starts from an empty response list
SequentialStart(previous_responses) == <<>>

\* the finished round is put in front of the history
StoreRoundFirst(rs, done) == <<done>> \o rs

\* execute_round: self.rounds.append(feedback_round)
StoreRound(rs, done) == Append(rs, done)

\* start_feedback_round's call of execute_round: the mode argument is the
\* literal "parallel", whatever the request asked for
HandlerMode(requested) == "parallel"

\* execute_round up to its first await: the round is created and the
\* coordinator makes its first analyze call(s); requested is the mode the
\* caller of the start-round operation asked for
BeginRoundAs(q, mode, requested) ==
  LET rn == NextRoundNumber(rounds)
      prev == PreviousResponses(rounds, rn)
  IN
  /\ ~InFlight(q)
  /\ inv' = [inv EXCEPT ![q] =
       IF mode = "sequential"
       THEN [IdleFrame EXCEPT
              !.pc = "seq", !.mode = mode, !.requested = requested,
              !.fr = NewFeedbackRound(rn),
              !.previous_responses = prev,
              !.k = 1, !.coord = "running",
              !.responses = SequentialStart(prev),
              !.calls = <<SeqCall(1, SequentialStart(prev))>>]
       ELSE [IdleFrame EXCEPT
              !.pc = "gather", !.mode = mode, !.requested = requested,
              !.fr = NewFeedbackRound(rn),
              !.previous_responses = prev,
              !.coord = "running",
              !.calls = CreateTasks(prev)]]
  /\ UNCHANGED <<agents, rounds, agent_cache>>

\* execute_round called with the mode its caller wants
BeginRound(q, mode) == BeginRoundAs(q, mode, mode)

\* a caller that awaits each execute_round before the next
\* (FeedbackLoopManager.run_multiple_rounds, a test driving the manager)
ExecuteRound(mode) ==
  /\ Len(rounds) < MaxRounds
  /\ \A q \in Slots : ~InFlight(q)
  /\ BeginRound(1, mode)
  /\ UNCHANGED <<active_sessions, reply, call>>

\* parallel mode: the task of agent i ends (in any order among the tasks)
AgentTaskEnds(q, i, o) ==
  /\ inv[q].pc = "gather"
  /\ inv[q].outcome[i] = "pending"
  /\ o \in AwaitOutcomes
  /\ inv' = [inv EXCEPT
       ![q].outcome[i] = o,
       ![q].tasks[i] = RunAgentWithTimeout(o,
                          Analyze(agents[i], inv[q].fr.round_number)),
       ![q].reordered = @ \/ \E j \in AgentIdx : j > i /\ inv[q].outcome[j] # "pending"]
  /\ agent_cache' = RecordInCache(agent_cache, agents[i], o,
                                   Analyze(agents[i], inv[q].fr.round_number))
  /\ UNCHANGED <<agents, rounds, active_sessions, reply, call>>

\* the collaborator answers a call of agent i that wait_for has timed out:
\* analyze was cancelled at its await, nothing takes the answer
LateAnswer(q, i) ==
  /\ inv[q].outcome[i] = "timeout"
  /\ ~inv[q].late[i]
  /\ inv' = [inv EXCEPT ![q].late[i] = TRUE]
  /\ UNCHANGED <<agents, rounds, active_sessions, reply, call, agent_cache>>

\* parallel mode: gather returns, successes are filtered, the round is
\* synthesized, closed and appended to the history
ParallelTail(q, fault) ==
  LET f == inv[q]
      results == GatherResults(f.tasks)
      coord == IF fault = "coord" THEN "raised" ELSE "returned"
      responses == IF coord = "raised" THEN <<>> ELSE FilterSuccessful(results)
      done == ExecuteRoundTail(f.fr, coord, responses, fault)
  IN
  /\ f.pc = "gather"
  /\ \A i \in AgentIdx : f.outcome[i] # "pending"
  /\ rounds' = IF ExecuteRoundEnds(coord, fault) = "returned"
                THEN StoreRound(rounds, done) ELSE rounds
  /\ UNCHANGED <<agents, agent_cache>>

\* the frame of a direct caller after execute_round returned
ReturnedFrame(f, fault) ==
  LET coord == IF fault = "coord" THEN "raised" ELSE "returned"
      responses == IF coord = "raised" THEN <<>>
                   ELSE FilterSuccessful(GatherResults(f.tasks))
  IN [f EXCEPT !.pc = "done",
               !.fr = ExecuteRoundTail(f.fr, coord, responses, fault),
               !.tasks = IdleFrame.tasks,
               !.responses = responses,
               !.coord = coord, !.fault = fault,
               !.ret = ExecuteRoundEnds(coord, fault)]

FinishParallelRound(fault) ==
  /\ ParallelTail(1, fault)
  /\ inv' = [inv EXCEPT ![1] = ReturnedFrame(inv[1], fault)]
  /\ UNCHANGED <<active_sessions, reply, call>>

\* sequential mode: the awaited call of agent k ends; the loop appends or
\* drops the response and either calls the next agent or, after the last
\* agent, the round is synthesized, closed and appended to the history
SeqStep(q, o, fault) ==
  LET f == inv[q]
      h == SeqHandle(o)
      resp == Analyze(agents[f.k], f.fr.round_number)
      responses == IF h = "append" THEN Append(f.responses, resp) ELSE f.responses
      last == f.k = Len(agents)
      coord == IF h = "raise" \/ (last /\ fault = "coord") THEN "raised" ELSE "returned"
      done == ExecuteRoundTail(f.fr, coord, responses, fault)
  IN
  /\ f.pc = "seq"
  /\ o \in AwaitOutcomes
  /\ ~last => fault = "none"
  /\ agent_cache' = RecordInCache(agent_cache, agents[f.k], o, resp)
  /\ UNCHANGED agents
  /\ IF last \/ h = "raise"
     THEN /\ rounds' = IF ExecuteRoundEnds(coord, fault) = "returned"
                        THEN StoreRound(rounds, done) ELSE rounds
          /\ inv' = [inv EXCEPT ![q].pc = "done", ![q].fr = done,
                                ![q].outcome[f.k] = o,
                                ![q].responses = responses,
                                ![q].coord = coord, ![q].fault = fault,
                                ![q].ret = ExecuteRoundEnds(coord, fault)]
     ELSE /\ rounds' = rounds
          /\ inv' = [inv EXCEPT ![q].k = f.k + 1,
                                ![q].outcome[f.k] = o,
                                ![q].responses = responses,
                                ![q].calls = Append(@, SeqCall(f.k + 1, responses))]

SequentialAgentEnds(o, fault) ==
  /\ SeqStep(1, o, fault)
  /\ UNCHANGED <<active_sessions, reply, call>>

\* ---------------------------------------------------- HTTP start-round handler
\* start_feedback_round up to the first await inside execute_round; the
\* request takes the lowest slot that holds no request in flight
StartFeedbackRound(q, requested) ==
  /\ Len(rounds) + Cardinality({p \in Slots : InFlight(p)}) < HttpRounds
  /\ \A p \in Slots : p < q => InFlight(p)
  /\ BeginRoundAs(q, HandlerMode(requested), requested)
  /\ active_sessions' = [active_sessions EXCEPT ![session_id].status = "in_progress"]
  /\ UNCHANGED <<reply, call>>

\* start_feedback_round from the return of gather to the HTTP response; the
\* slot keeps the round and the status code the request was answered with
EndFeedbackRound(q, fault) ==
  /\ ParallelTail(q, fault)
  /\ LET g == ReturnedFrame(inv[q], fault)
         round == g.fr
         http == IF g.ret = "raised" THEN "500" ELSE HttpStatusFor(round)
     IN /\ inv' = [inv EXCEPT ![q] =
               [IdleFrame EXCEPT !.pc = "done", !.fr = round, !.fault = fault,
                                 !.requested = inv[q].requested,
                                 !.ret = g.ret, !.http = http]]
        /\ active_sessions' = [active_sessions EXCEPT
               ![session_id].current_round =
                   IF g.ret = "raised" THEN @ ELSE round.round_number,
               ![session_id].status = IF http = "500" THEN "failed" ELSE @]
  /\ UNCHANGED <<reply, call>>

\* ------------------------------------------------------- session store
\* AgentFactory.create_agents_from_personas on the process-wide factory: a
\* persona the cache holds resolves to the cached agent, history and all;
\* any other persona gets a new agent, which is cached
CreateAgentsFromPersonas(cache, personas) ==
  [a \in DOMAIN cache \cup SeqRange(personas) |->
     IF a \in DOMAIN cache THEN cache[a] ELSE <<>>]

\* create_research_session: the whole handler (it has no await).  The fresh
\* uuid is the lowest id the store does not hold.
CreateResearchSession(request) ==
  LET sel == SelectPersonas(request)
      free == SessionIds \ DOMAIN active_sessions
      sid == CHOOSE x \in free : \A y \in free : x <= y
  IN
  /\ reply.seq < MaxRequests
  /\ IF sel.status_code = "400"
     THEN /\ active_sessions' = active_sessions
          /\ agent_cache' = agent_cache
          /\ reply' = [seq |-> reply.seq + 1, op |-> "create",
                       status_code |-> "400", session_id |-> 0,
                       usable |-> Len(UsableAgents(request))]
     ELSE /\ free # {}
          /\ agent_cache' = CreateAgentsFromPersonas(agent_cache, sel.personas)
          /\ active_sessions' = [x \in DOMAIN active_sessions \cup {sid} |->
                 IF x = sid THEN NewSession(sel.personas) ELSE active_sessions[x]]
          /\ reply' = [seq |-> reply.seq + 1, op |-> "create",
                       status_code |-> "200", session_id |-> sid,
                       usable |-> Len(UsableAgents(request))]
  /\ UNCHANGED <<agents, rounds, inv, call>>

\* delete_session
DeleteSession(sid) ==
  /\ reply.seq < MaxRequests
  /\ IF sid \in DOMAIN active_sessions
     THEN /\ active_sessions' = [x \in DOMAIN active_sessions \ {sid} |-> active_sessions[x]]
          /\ reply' = [seq |-> reply.seq + 1, op |-> "delete",
                       status_code |-> "200", session_id |-> sid, usable |-> 0]
     ELSE /\ active_sessions' = active_sessions
          /\ reply' = [seq |-> reply.seq + 1, op |-> "delete",
                       status_code |-> "404", session_id |-> sid, usable |-> 0]
  /\ UNCHANGED <<agents, rounds, inv, call, agent_cache>>

\* the cache after the analyze calls of a round on the agents ids[i..]: the
\* calls with index in answered return a response
RECURSIVE RecordRound(_, _, _, _, _)
RecordRound(cache, ids, answered, round_number, i) ==
  IF i > Len(ids) THEN cache
  ELSE RecordRound(
         RecordInCache(cache, ids[i], IF i \in answered THEN "ok" ELSE "timeout",
                       Analyze(ids[i], round_number)),
         ids, answered, round_number, i + 1)

\* start_feedback_round on session sid, from the request to its answer, with
\* no other request in between and no failure outside the agents: the
\* session's agents are called for the next round, the calls with index in
\* answered return a response
SessionRound(sid, answered) ==
  /\ reply.seq < MaxRequests
  /\ sid \in DOMAIN active_sessions
  /\ LET entry == active_sessions[sid]
         round_number == entry.current_round + 1
     IN /\ answered \subseteq DOMAIN entry.selected_agents
        /\ agent_cache' = RecordRound(agent_cache, entry.selected_agents,
                                      answered, round_number, 1)
        /\ active_sessions' = [active_sessions EXCEPT
               ![sid].status = "in_progress",
               ![sid].current_round = round_number]
        /\ reply' = [seq |-> reply.seq + 1, op |-> "round",
                     status_code |-> "200", session_id |-> sid, usable |-> 0]
  /\ UNCHANGED <<agents, rounds, inv, call>>

\* ----------------------------------------------------------- specifications
\* A fresh manager whose caller awaits each execute_round before the next;
\* its agents were built by the caller and the factory's cache holds none.
Next ==
  \/ \E m \in Modes : ExecuteRound(m)
  \/ \E i \in AgentIdx, o \in Outcomes : AgentTaskEnds(1, i, o)
  \/ \E fault \in Faults : FinishParallelRound(fault)
  \/ \E o \in Outcomes, fault \in Faults : SequentialAgentEnds(o, fault)

Spec == Init /\ [][Next]_vars

\* the responses of the agents with index in S, in agent-list order
ResponsesOf(S, n, round_number) ==
  LET idx == SelectSeq([i \in 1..n |-> i], LAMBDA i : i \in S)
  IN [j \in 1..Len(idx) |-> Analyze(AgentList(n)[idx[j]], round_number)]

\* the round-1 records execute_round can leave in the history of n agents
FirstRounds(n) ==
  {ExecuteRoundTail(NewFeedbackRound(1), "returned", ResponsesOf(S, n, 1), fault) :
      S \in SUBSET (1..n), fault \in {"none", "synth"}}
  \cup {ExecuteRoundTail(NewFeedbackRound(1), "raised", <<>>, "coord")}

\* One coordinator run of NumAgents agents, as the first round of a session or
\* as the second round after any first round.
InitCoord ==
  /\ agents = AgentList(NumAgents)
  /\ rounds \in {<<>>} \cup {<<r>> : r \in FirstRounds(NumAgents)}
  /\ inv = [q \in Slots |-> IdleFrame]
  /\ active_sessions = (session_id :> NewSession(agents))
  /\ reply = NoReply
  /\ call = NoCall
  /\ agent_cache = HistoriesAfter(agents, rounds)

RunCoordinator(mode) ==
  /\ inv[1].pc = "idle"
  /\ BeginRound(1, mode)
  /\ UNCHANGED <<active_sessions, reply, call>>

NextCoord ==
  \/ \E m \in Modes : RunCoordinator(m)
  \/ \E i \in AgentIdx, o \in Outcomes : AgentTaskEnds(1, i, o)
  \/ \E fault \in Faults : FinishParallelRound(fault)
  \/ \E o \in Outcomes, fault \in Faults : SequentialAgentEnds(o, fault)

SpecCoord == InitCoord /\ [][NextCoord]_vars

\* The same run on a live event loop.  An analyze call need not be answered;
\* what is certain is that the timer of wait_for fires on a call still
\* pending, and that the loop resumes execute_round once gather is complete.
SpecCoordLive ==
  /\ InitCoord /\ [][NextCoord]_vars
  /\ \A i \in 1..NumAgents : WF_vars(AgentTaskEnds(1, i, "timeout"))
  /\ WF_vars(\E fault \in Faults : FinishParallelRound(fault))
  /\ WF_vars(\E fault \in Faults : SequentialAgentEnds("timeout", fault))

\* The session served over HTTP: start-round requests are accepted whenever
\* they arrive, also while an earlier request of the session is awaiting its
\* agents.
InitHttp ==
  /\ agents = AgentList(HttpAgents)
  /\ rounds = <<>>
  /\ inv = [q \in Slots |-> IdleFrame]
  /\ active_sessions = (session_id :> NewSession(agents))
  /\ reply = NoReply
  /\ call = NoCall
  /\ agent_cache = HistoriesAfter(agents, rounds)

NextHttp ==
  \/ \E q \in Slots, requested \in Modes : StartFeedbackRound(q, requested)
  \/ \E q \in Slots, i \in AgentIdx, o \in Outcomes : AgentTaskEnds(q, i, o)
  \/ \E q \in Slots, fault \in Faults : EndFeedbackRound(q, fault)

SpecHttp == InitHttp /\ [][NextHttp]_vars

\* One coordinator run in which the collaborator may answer a call after
\* its timeout.
NextHistory ==
  \/ \E m \in Modes : RunCoordinator(m)
  \/ \E i \in AgentIdx, o \in Outcomes : AgentTaskEnds(1, i, o)
  \/ \E fault \in Faults : FinishParallelRound(fault)
  \/ \E o \in Outcomes, fault \in Faults : SequentialAgentEnds(o, fault)
  \/ \E i \in AgentIdx : LateAnswer(1, i)

SpecHistory == InitCoord /\ [][NextHistory]_vars

\* The session store of the API process, from start-up: no session yet.
InitStore ==
  /\ agents = <<>>
  /\ rounds = <<>>
  /\ inv = [q \in Slots |-> IdleFrame]
  /\ active_sessions = <<>>
  /\ reply = NoReply
  /\ call = NoCall
  /\ agent_cache = <<>>

NextStore ==
  \/ \E request \in CreateRequests : CreateResearchSession(request)
  \/ \E sid \in SessionIds : DeleteSession(sid)

SpecStore == InitStore /\ [][NextStore]_vars

\* The manager of a session created by any request create_research_session
\* accepts, its caller awaiting each execute_round before the next.
InitBound ==
  /\ \E request \in CreateRequests :
       /\ SelectPersonas(request).status_code = "200"
       /\ agents = SelectPersonas(request).personas
  /\ rounds = <<>>
  /\ inv = [q \in Slots |-> IdleFrame]
  /\ active_sessions = (session_id :> NewSession(agents))
  /\ reply = NoReply
  /\ call = NoCall
  /\ agent_cache = CreateAgentsFromPersonas(<<>>, agents)

NextBound ==
  \/ \E m \in Modes : ExecuteRound(m)
  \/ \E i \in AgentIdx, o \in Outcomes : AgentTaskEnds(1, i, o)
  \/ \E fault \in Faults : FinishParallelRound(fault)
  \/ \E o \in Outcomes, fault \in Faults : SequentialAgentEnds(o, fault)

SpecBound == InitBound /\ [][NextBound]_vars

\* The sessions of the API process and their rounds, one request at a time.
NextSessions ==
  \/ \E request \in CreateRequests : CreateResearchSession(request)
  \/ \E sid \in SessionIds : DeleteSession(sid)
  \/ \E sid \in SessionIds, answered \in SUBSET (1..MaxSelected) :
        SessionRound(sid, answered)

SpecSessions == InitStore /\ [][NextSessions]_vars

\* get_session_summary applied to a history of the manager.
InitSummary ==
  /\ agents = AgentList(SessionAgents)
  /\ rounds \in UNION {TallyHistories(n) : n \in 0..SummaryRounds}
                \cup UNION {ConsensusHistories(n) : n \in 0..InsightRounds}
  /\ inv = [q \in Slots |-> IdleFrame]
  /\ active_sessions = (session_id :> NewSession(agents))
  /\ reply = NoReply
  /\ call = NoCall
  /\ agent_cache = <<>>

GetSessionSummary ==
  /\ call.fn = "none"
  /\ \E key_insights \in KeyInsights(AllConsensus(rounds)) :
       call' = [fn |-> "get_session_summary",
                out |-> SessionSummary(rounds, Len(agents), key_insights)]
  /\ UNCHANGED <<agents, rounds, inv, active_sessions, reply, agent_cache>>

NextSummary == GetSessionSummary

SpecSummary == InitSummary /\ [][NextSummary]_vars

\* synthesize applied to a list of responses: every list of up to
\* SynthAgents sentiments (the round number varies for the lists of at most
\* one response), lists whose opportunities name common terms,
\* lists of runs of strings, and lists of confidence scores.
NotCalled(input) ==
  [fn |-> "none", calls |-> 0, given |-> input, input |-> input, outs |-> <<>>]

InitSynth ==
  /\ agents = AgentList(SessionAgents)
  /\ rounds = <<>>
  /\ inv = [q \in Slots |-> IdleFrame]
  /\ active_sessions = (session_id :> NewSession(agents))
  /\ reply = NoReply
  /\ agent_cache = <<>>
  /\ \/ \E n \in 0..SynthAgents : \E l \in [1..n -> Sentiments] :
          \E rn \in 1..(IF n <= 1 THEN SynthRounds ELSE 1) :
            call = NotCalled(SynthInput(SentimentResponses(l), rn))
     \/ \E n \in 1..KeywordAgents : \E l \in {Agreeing(n), Disagreeing(n)} :
          \E first \in [SeqRange(CommonTerms) -> MentionCounts] :
            \E rest \in {NoMentions, Once} :
              call = NotCalled(SynthInput(KeywordResponses(l, first, rest), 1))
     \/ \E n \in 1..ItemAgents : \E l \in [1..n -> Runs] :
          call = NotCalled(SynthInput(ItemResponses(l), 1))
     \/ \E n \in 1..ConfidenceAgents : \E l \in [1..n -> ConfidenceScores] :
          call = NotCalled(SynthInput(ConfidenceResponses(l), 1))

\* one call of synthesize on the caller's list: given is the list as the
\* caller built it, input the list as the calls so far have left it, out
\* the value of the latest call and outs the values of all calls
SynthesizeCall ==
  /\ call.calls < SynthCalls
  /\ LET out == SynthesizeResponses(call.input.responses, call.input.round_number)
     IN call' = [fn |-> "synthesize", calls |-> call.calls + 1,
                 given |-> call.given,
                 input |-> [responses |-> ResponsesAfterSynthesize(call.input.responses),
                            round_number |-> call.input.round_number],
                 out |-> out, outs |-> Append(call.outs, out)]
  /\ UNCHANGED <<agents, rounds, inv, active_sessions, reply, agent_cache>>

NextSynth == SynthesizeCall

SpecSynth == InitSynth /\ [][NextSynth]_vars

\* analyze of one agent, in its first round or in its second.
FirstText == <<SentimentHeader({"positive"})>>

EarlierRound ==
  <<[round |-> 1,
     response |-> ParsedAgentResponse(ParseResponse(FirstText), FirstText, 1)]>>

InitParse ==
  /\ agents = AgentList(SessionAgents)
  /\ rounds = <<>>
  /\ inv = [q \in Slots |-> IdleFrame]
  /\ active_sessions = (session_id :> NewSession(agents))
  /\ reply = NoReply
  /\ agent_cache = <<>>
  /\ \E history \in {<<>>, EarlierRound} :
       call = [fn |-> "none", conversation_history |-> history]

\* the agent after an analyze call in which the generate call ended with
\* generated
Analyzed(generated) ==
  LET round_number == Len(call.conversation_history) + 1
      effect == AnalyzeEffect(generated, round_number, call.conversation_history)
  IN call' = [fn |-> "analyze", generated |-> generated,
              before |-> call.conversation_history,
              raised |-> effect.raised, error |-> effect.error,
              response |-> effect.response,
              conversation_history |-> effect.conversation_history]

\* one analyze call: the collaborator fails, or answers a text of up to
\* MaxLines lines
AnalyzeCall ==
  /\ call.fn = "none"
  /\ \/ Analyzed(GenerateFailed)
     \/ \E n \in 0..MaxLines : \E text \in [1..n -> Lines] :
          Analyzed(Generated(text))
  /\ UNCHANGED <<agents, rounds, inv, active_sessions, reply, agent_cache>>

NextParse == AnalyzeCall

SpecParse == InitParse /\ [][NextParse]_vars

\* ------------------------------------------------------------------ claims
\* the frame of the serial caller
F1 == inv[1]

\* indices of the agents of frame f, below index k, whose call succeeded
OkBelow(f, k) ==
  SelectSeq([i \in 1..Len(agents) |-> i], LAMBDA i : i < k /\ f.outcome[i] = "ok")

\* the responses the agents below index k that succeeded owe, in list order
ExpectedBelow(f, k) ==
  LET idx == OkBelow(f, k)
  IN [j \in 1..Len(idx) |->
        [agent_id |-> agents[idx[j]], round_number |-> f.fr.round_number]]

Expected(f) == ExpectedBelow(f, Len(agents) + 1)

\* the list an optional context stands for
CtxList(ctx) == IF ctx.some THEN ctx.val ELSE <<>>

Returned(f) == f.pc = "done" /\ f.coord = "returned"

\* C1: when every agent of the coordinator succeeds, a parallel run and a
\* sequential run each return exactly N responses and the i-th response is the
\* i-th agent's, whatever order the parallel tasks ended in.
C1_AllSucceedInOrder ==
  (Returned(F1) /\ \A i \in AgentIdx : F1.outcome[i] = "ok")
    => /\ Len(F1.responses) = Len(agents)
       /\ \A i \in AgentIdx : F1.responses[i].agent_id = agents[i]

C1_Witness ==
  /\ Returned(F1) /\ F1.mode = "parallel" /\ F1.reordered
  /\ \A i \in AgentIdx : F1.outcome[i] = "ok"
  /\ Len(F1.responses) = NumAgents

\* C2: a parallel run returns exactly the responses of the agents that
\* succeeded, in agent-list order; an agent that timed out or failed
\* contributes nothing.
C2_ParallelDropsFailures ==
  (Returned(F1) /\ F1.mode = "parallel") => F1.responses = Expected(F1)

C2_Witness ==
  /\ Returned(F1) /\ F1.mode = "parallel"
  /\ F1.outcome[1] = "ok" /\ F1.outcome[2] = "timeout"
  /\ \A i \in AgentIdx : i # 2 => F1.outcome[i] = "ok"
  /\ Len(F1.responses) = Len(agents) - 1
  /\ \A j \in 1..Len(F1.responses) : F1.responses[j].agent_id # agents[2]

\* C3: in a sequential run the k-th analyze call is the k-th agent's and its
\* peer context is exactly the responses agents 1..k-1 produced earlier in the
\* round, in execution order; the first agent gets no context.
C3_SequentialContext ==
  (F1.mode = "sequential" /\ F1.pc \in {"seq", "done"}) =>
    /\ Len(F1.calls) >= 1 /\ F1.calls[1].ctx = NoneList
    /\ \A k \in 1..Len(F1.calls) :
         /\ F1.calls[k].agent = k
         /\ CtxList(F1.calls[k].ctx) = ExpectedBelow(F1, k)

C3_Witness ==
  /\ F1.mode = "sequential" /\ F1.pc = "seq" /\ Len(F1.calls) = 3
  /\ F1.outcome[1] = "ok" /\ F1.outcome[2] = "ok"
  /\ F1.calls[3].ctx.some /\ Len(F1.calls[3].ctx.val) = 2

\* C4: in a parallel round every agent is called with the same context: none
\* in round 1, the response list of the previous round otherwise; it holds no
\* response of the round being run.
C4_ParallelContext ==
  (F1.mode = "parallel" /\ F1.pc \in {"gather", "done"}) =>
    LET rn == F1.fr.round_number
        ctx == IF rn = 1 THEN NoneList ELSE SomeList(rounds[rn - 1].agent_responses)
    IN /\ Len(F1.calls) = Len(agents)
       /\ \A i \in AgentIdx :
            /\ F1.calls[i].agent = i
            /\ F1.calls[i].ctx = ctx
            /\ \A j \in 1..Len(CtxList(F1.calls[i].ctx)) :
                 CtxList(F1.calls[i].ctx)[j].round_number = rn - 1

C4_Witness ==
  /\ F1.mode = "parallel" /\ F1.pc = "gather" /\ F1.fr.round_number = 3
  /\ rounds[1].agent_responses # rounds[2].agent_responses
  /\ F1.tasks[1].kind = "response"
  /\ F1.calls[2].ctx.some /\ Len(F1.calls[2].ctx.val) = Len(agents)

\* C5: under a caller that awaits each round before the next, the i-th round
\* of the history has round_number i, whether rounds completed or failed, and
\* the round being run has the next number.
C5_RoundNumbers ==
  /\ \A i \in 1..Len(rounds) : rounds[i].round_number = i
  /\ InFlight(1) => F1.fr.round_number = Len(rounds) + 1

C5_Witness ==
  /\ Len(rounds) = 3
  /\ rounds[1].status = "completed" /\ rounds[2].status = "failed"
  /\ rounds[3].status = "completed" /\ rounds[3].round_number = 3

\* C6: two rounds of one session are never in progress at the same time, and
\* no two rounds of the history have the same round_number.
C6_RoundsSerialized ==
  /\ \A p, q \in Slots : (p # q) => ~(InFlight(p) /\ InFlight(q))
  /\ \A i, j \in 1..Len(rounds) :
       (i # j) => rounds[i].round_number # rounds[j].round_number

\* C7: whatever the agents' outcomes, the coordinator call returns a list; it
\* raises only on an exception that is not an agent's timeout or failure.
C7_CoordinatorNeverRaises ==
  /\ F1.coord = "raised" => F1.fault = "coord"
  /\ (F1.pc = "done" /\ F1.fault # "coord") =>
        /\ F1.coord = "returned"
        /\ Len(F1.responses) <= Len(agents)

C7_Witness ==
  /\ Returned(F1) /\ F1.mode = "sequential"
  /\ F1.outcome[1] = "error" /\ F1.outcome[2] = "timeout" /\ F1.outcome[3] = "error"
  /\ F1.responses = <<>>

\* C8: in a sequential run every agent is called even after an earlier one
\* timed out or failed; a failed agent's response is in no later context and
\* not in the result; the result is in execution order.
C8_SequentialContinues ==
  (F1.mode = "sequential" /\ F1.pc \in {"seq", "done"}) =>
    /\ F1.pc = "done" =>
         /\ Len(F1.calls) = Len(agents)
         /\ \A i \in AgentIdx : F1.outcome[i] # "pending"
    /\ \A i \in AgentIdx : F1.outcome[i] \in {"error", "timeout"} =>
         /\ \A j \in 1..Len(F1.responses) : F1.responses[j].agent_id # agents[i]
         /\ \A k \in 1..Len(F1.calls) : \A j \in 1..Len(CtxList(F1.calls[k].ctx)) :
              CtxList(F1.calls[k].ctx)[j].agent_id # agents[i]
    /\ \A j \in 1..Len(F1.responses) : \A l \in 1..Len(F1.responses) :
         j < l => \E a, b \in AgentIdx :
                    /\ a < b
                    /\ F1.responses[j].agent_id = agents[a]
                    /\ F1.responses[l].agent_id = agents[b]

C8_Witness ==
  /\ Returned(F1) /\ F1.mode = "sequential"
  /\ F1.outcome[1] = "ok" /\ F1.outcome[2] = "timeout" /\ F1.outcome[3] = "ok"
  /\ Len(F1.responses) = 2 /\ F1.responses[2].agent_id = agents[3]
  /\ Len(CtxList(F1.calls[3].ctx)) = 1

\* C9: every round of the history whose status is COMPLETED has a synthesis.
C9_CompletedHasSynthesis ==
  \A i \in 1..Len(rounds) : rounds[i].status = "completed" => rounds[i].synthesis.some

C9_Witness ==
  /\ Len(rounds) >= 2
  /\ rounds[1].status = "completed" /\ rounds[1].synthesis.some
  /\ rounds[2].status = "failed" /\ ~rounds[2].synthesis.some

\* C10: a round in which coordination or synthesis raised ends FAILED with a
\* completion timestamp and no synthesis, is appended to the history, and
\* keeps the coordinator's full result when only the synthesis failed.
C10_FailedRoundKept ==
  (F1.pc = "done" /\ F1.fault # "none") =>
    LET r == rounds[Len(rounds)]
    IN /\ r = F1.fr
       /\ r.status = "failed"
       /\ r.completed_at = "set"
       /\ ~r.synthesis.some
       /\ F1.fault = "synth" => (F1.coord = "returned" /\ r.agent_responses = Expected(F1))
       /\ F1.fault = "coord" => r.agent_responses = <<>>

C10_Witness ==
  /\ F1.pc = "done" /\ F1.fault = "synth"
  /\ rounds[Len(rounds)].status = "failed"
  /\ Len(rounds[Len(rounds)].agent_responses) = Len(agents)
  /\ ~rounds[Len(rounds)].synthesis.some

\* C11: execute_round never raises a failure of the coordination or of the
\* synthesis to its caller: the call returns a round, and that round is
\* FAILED whenever the coordinator call or the synthesis raised.
C11_NoRaisePastManager ==
  F1.pc = "done" =>
    /\ F1.ret = "returned"
    /\ F1.fr.round_number >= 1
    /\ F1.fr.status \in {"completed", "failed"}
    /\ (F1.coord = "raised" \/ F1.fault # "none") => F1.fr.status = "failed"

C11_Witness ==
  /\ F1.pc = "done" /\ F1.fault = "coord" /\ F1.coord = "raised"
  /\ F1.ret = "returned" /\ F1.fr.status = "failed"
  /\ \E i \in AgentIdx : F1.outcome[i] = "timeout"

\* position of a status on the path PENDING, IN_PROGRESS, {COMPLETED, FAILED}
StatusRank(status) ==
  CASE status = "pending" -> 0
    [] status = "in_progress" -> 1
    [] status \in {"completed", "failed"} -> 2

\* C12: the status of a round only moves forward along PENDING, IN_PROGRESS,
\* {COMPLETED, FAILED}: every round returned or in the history is COMPLETED
\* or FAILED and has a completion timestamp, and a COMPLETED or FAILED status
\* never changes afterwards.
C12_StatusForward ==
  /\ [](\A i \in 1..Len(rounds) :
          StatusRank(rounds[i].status) = 2 /\ rounds[i].completed_at = "set")
  /\ [](F1.pc = "done" =>
          StatusRank(F1.fr.status) = 2 /\ F1.fr.completed_at = "set")
  /\ [][/\ \A i \in 1..Len(rounds) :
             i <= Len(rounds') /\ rounds'[i].status = rounds[i].status
         /\ (F1.fr.round_number >= 1 /\ F1'.fr.round_number = F1.fr.round_number) =>
             /\ StatusRank(F1'.fr.status) >= StatusRank(F1.fr.status)
             /\ StatusRank(F1.fr.status) = 2 => F1'.fr.status = F1.fr.status]_vars

C12_Witness ==
  /\ Len(rounds) = 2
  /\ rounds[1].status = "failed" /\ rounds[2].status = "completed"
  /\ InFlight(1) /\ F1.fr.status = "in_progress" /\ F1.fr.round_number = 3

\* C13: in parallel mode the context execute_round hands to the coordinator
\* for round n > 1 is exactly the agent_responses of round n-1, the last round
\* of the history, and holds no response of an earlier round.
C13_ContextIsLastRound ==
  (F1.pc \in {"gather", "done"} /\ F1.mode = "parallel" /\ F1.fr.round_number > 1) =>
    LET n == F1.fr.round_number
        ctx == F1.previous_responses
    IN /\ ctx = SomeList(rounds[n - 1].agent_responses)
       /\ \A c \in DOMAIN F1.calls : F1.calls[c].ctx = ctx
       /\ \A j \in DOMAIN ctx.val : ctx.val[j].round_number = n - 1
       /\ \A e \in 1..(n - 2) : \A j \in DOMAIN rounds[e].agent_responses :
             \A c \in DOMAIN ctx.val : ctx.val[c] # rounds[e].agent_responses[j]

C13_Witness ==
  /\ F1.pc = "gather" /\ F1.mode = "parallel" /\ F1.fr.round_number = 3
  /\ Len(rounds[1].agent_responses) = 2
  /\ Len(rounds[2].agent_responses) = 1
  /\ F1.previous_responses = SomeList(rounds[2].agent_responses)

\* C14: a FAILED round is a queryable terminal state and not an exception:
\* the start-round request that ran it is answered with the round (status
\* 200) instead of failing, and the round can be fetched by its round number.
C14_FailedRoundReported ==
  \A q \in Slots :
    (inv[q].pc = "done" /\ inv[q].fr.status = "failed") =>
      /\ inv[q].http = "200"
      /\ GetFeedbackRound(rounds, inv[q].fr.round_number).status_code = "200"
      /\ GetFeedbackRound(rounds, inv[q].fr.round_number).round.status = "failed"

\* C15: a session-creation request that resolves to zero usable agents is
\* answered with a client error (400) and leaves the session store as it
\* was: no session and no round is created.
C15_NoAgentsNoSession ==
  [][(reply'.seq # reply.seq /\ reply'.op = "create" /\ reply'.usable = 0) =>
       /\ reply'.status_code = "400"
       /\ active_sessions' = active_sessions
       /\ rounds' = rounds]_vars

C15_Witness ==
  /\ reply.op = "create" /\ reply.usable = 0 /\ reply.status_code = "400"
  /\ reply.seq = 2
  /\ DOMAIN active_sessions = {1} /\ Len(active_sessions[1].selected_agents) = 2

\* C16: every execute_round call terminates with its round appended to the
\* history, given that each analyze call is answered, fails or reaches its
\* timeout; an agent that never answers is dropped by its timeout and the
\* responses of the agents that answered are still returned.
C16_RoundTerminates ==
  /\ InFlight(1) ~>
        (/\ F1.pc = "done" /\ F1.ret = "returned"
         /\ Len(rounds) = F1.fr.round_number
         /\ rounds[Len(rounds)] = F1.fr)
  /\ [](F1.pc = "done" /\ F1.ret = "returned" /\ F1.fault = "none" =>
          rounds[Len(rounds)].agent_responses = Expected(F1))

C16_Witness ==
  /\ F1.pc = "done" /\ F1.ret = "returned" /\ F1.fault = "none"
  /\ F1.outcome[1] = "timeout" /\ F1.outcome[2] = "ok" /\ F1.outcome[3] = "ok"
  /\ Len(rounds) = 2
  /\ Len(rounds[2].agent_responses) = 2

\* the summary get_session_summary returned for the history `rounds`
Summarized == call.fn = "get_session_summary"

\* C17: for a history of at least one round the summary reports the number
\* of rounds, COMPLETED and FAILED alike, as total_rounds, the sum of the
\* rounds' response counts as total_responses, and the overall_sentiment of
\* the last round as final_sentiment.
C17_SummaryTotals ==
  (Summarized /\ Len(rounds) >= 1) =>
    /\ call.out.present
    /\ call.out.total_rounds =
         Cardinality({i \in DOMAIN rounds : rounds[i].status \in {"completed", "failed"}})
    /\ call.out.total_rounds = Len(rounds)
    /\ call.out.total_responses =
         Cardinality(UNION {{<<i, j>> : j \in DOMAIN rounds[i].agent_responses} :
                              i \in DOMAIN rounds})
    /\ call.out.final_sentiment = rounds[Len(rounds)].overall_sentiment

C17_Witness ==
  /\ Summarized /\ Len(rounds) = 2
  /\ rounds[1].status = "failed" /\ Len(rounds[1].agent_responses) = 2
  /\ rounds[2].status = "completed" /\ rounds[2].overall_sentiment = "positive"
  /\ Len(rounds[2].agent_responses) = 1
  /\ call.out.total_rounds = 2 /\ call.out.total_responses = 3
  /\ call.out.final_sentiment = "positive"

\* the consensus points of the rounds of the history
HistoryPoints == UNION {SeqRange(rounds[i].consensus_points) : i \in DOMAIN rounds}

\* C18: the key insights of the summary hold no duplicate, number at most 10
\* and are each a consensus point of some round of the history; when the
\* rounds have at most 10 distinct consensus points, all of them are there.
C18_KeyInsights ==
  (Summarized /\ call.out.present) =>
    LET ki == call.out.key_insights
    IN /\ \A e \in DOMAIN ki : ki[e] = 1 /\ e \in HistoryPoints
       /\ Cardinality(DOMAIN ki) <= 10
       /\ Cardinality(HistoryPoints) <= 10 => DOMAIN ki = HistoryPoints

C18_Witness ==
  /\ Summarized /\ call.out.present
  /\ Cardinality(HistoryPoints) = 11
  /\ Len(AllConsensus(rounds)) = 15
  /\ Cardinality(DOMAIN call.out.key_insights) = 10
  /\ 1 \notin DOMAIN call.out.key_insights

Synthesized == call.fn = "synthesize"

\* C19: synthesize on an empty response list returns total_agents 0, empty
\* consensus, divergence, opportunity, concern, question and next-step
\* lists, overall_sentiment NEUTRAL and confidence_level "low", with the
\* round_number it was given.
C19_EmptySynthesis ==
  (Synthesized /\ Len(call.input.responses) = 0) =>
    /\ ~call.out.raised
    /\ call.out.round_number = call.input.round_number
    /\ call.out.total_agents = 0
    /\ call.out.consensus_insights = <<>>
    /\ call.out.divergent_opinions = <<>>
    /\ call.out.top_opportunities = <<>>
    /\ call.out.top_concerns = <<>>
    /\ call.out.priority_questions = <<>>
    /\ call.out.next_steps_suggested = <<>>
    /\ call.out.overall_sentiment = "neutral"
    /\ call.out.confidence_level = "low"

C19_Witness ==
  /\ Synthesized /\ call.input.responses = <<>>
  /\ call.input.round_number = 2 /\ call.out.round_number = 2
  /\ call.out.total_agents = 0

\* the sentiment lines among the consensus insights of the call
SentimentLines ==
  SelectSeq(call.out.consensus_insights, LAMBDA x : x.kind = "sentiment")

\* C20: for N >= 1 responses the consensus line "<count> out of <N> experts
\* are <sentiment> about this idea" is emitted exactly when the most frequent
\* sentiment has count / N >= 0.6, with that sentiment and that count, and at
\* most once; four POSITIVE and one NEUTRAL give "4 out of 5 experts are
\* positive about this idea".
C20_SentimentConsensus ==
  (Synthesized /\ Len(call.input.responses) >= 1) =>
    LET rs == call.input.responses
        N == Len(rs)
        agreed == {s \in Sentiments : CountOf(rs, s) * 10 >= N * 6}
    IN /\ Len(SentimentLines) <= 1
       /\ (agreed # {}) <=> (Len(SentimentLines) = 1)
       /\ \A s \in agreed :
            /\ \A t \in Sentiments : CountOf(rs, t) <= CountOf(rs, s)
            /\ SentimentLines[1] =
                 [kind |-> "sentiment", count |-> CountOf(rs, s), total |-> N,
                  sentiment |-> IF s = "very_positive" THEN "very positive" ELSE s]
       /\ (N = 5 /\ CountOf(rs, "positive") = 4 /\ CountOf(rs, "neutral") = 1) =>
            call.out.consensus_insights[1] =
              [kind |-> "sentiment", count |-> 4, total |-> 5, sentiment |-> "positive"]

C20_Witness ==
  /\ Synthesized
  /\ call.input.responses =
       <<SynthResponse("positive"), SynthResponse("positive"), SynthResponse("neutral"),
         SynthResponse("positive"), SynthResponse("positive")>>
  /\ Len(call.out.consensus_insights) = 1
  /\ call.out.consensus_insights[1] =
       [kind |-> "sentiment", count |-> 4, total |-> 5, sentiment |-> "positive"]

\* the keyword lines among the consensus insights of the call
KeywordTerms ==
  LET kw == SelectSeq(call.out.consensus_insights, LAMBDA x : x.kind = "keyword")
  IN [i \in DOMAIN kw |-> kw[i].term]

\* the common terms that occur at least N x 0.5 times in the opportunities
\* of the call, in the fixed order
Qualifying ==
  SelectSeq(<<"market", "growth", "demand", "innovation", "potential">>,
            LAMBDA t : 2 * TermCount(call.input.responses, t) >= Len(call.input.responses))

\* C21: the consensus list of synthesize has at most 5 entries; the sentiment
\* line, when emitted, is first; the keyword lines follow in the order
\* market, growth, demand, innovation, potential, one for each term whose
\* occurrence count in the opportunities is at least N x 0.5, the last being
\* cut when all six entries qualify.
C21_ConsensusList ==
  (Synthesized /\ Len(call.input.responses) >= 1) =>
    LET out == call.out.consensus_insights
    IN /\ Len(out) <= 5
       /\ \A i \in DOMAIN out : out[i].kind = "sentiment" => i = 1
       /\ \A i \in DOMAIN out : out[i].kind = "keyword" =>
            out[i] = [kind |-> "keyword", term |-> out[i].term]
       /\ Len(out) = Len(SentimentLines) + Len(KeywordTerms)
       /\ IF Len(SentimentLines) = 1 /\ Len(Qualifying) = 5
          THEN KeywordTerms = <<"market", "growth", "demand", "innovation">>
          ELSE KeywordTerms = Qualifying

C21_Witness ==
  /\ Synthesized /\ Len(call.input.responses) = 3
  /\ TermCount(call.input.responses, "growth") = 2
  /\ TermCount(call.input.responses, "demand") = 4
  /\ Len(Qualifying) = 5
  /\ Len(call.out.consensus_insights) = 5
  /\ call.out.consensus_insights[1].kind = "sentiment"
  /\ call.out.consensus_insights[5] = [kind |-> "keyword", term |-> "innovation"]

\* C22: synthesize emits exactly one divergence record when the responses
\* span at least 3 distinct sentiments and contain both a VERY_POSITIVE or
\* POSITIVE response and a NEGATIVE or CAUTIOUS one, and none otherwise; the
\* record pairs the first response of the positive group with the first of
\* the negative group in list order, and no NEUTRAL response is in the pair.
C22_Divergence ==
  Synthesized =>
    LET rs == call.input.responses
        out == call.out.divergent_opinions
        pos == {i \in DOMAIN rs : rs[i].sentiment \in {"very_positive", "positive"}}
        neg == {i \in DOMAIN rs : rs[i].sentiment \in {"negative", "cautious"}}
        span == Cardinality({rs[i].sentiment : i \in DOMAIN rs})
    IN IF span >= 3 /\ pos # {} /\ neg # {}
       THEN /\ Len(out) = 1
            /\ out[1].viewpoint_a \in pos
            /\ \A i \in pos : out[1].viewpoint_a <= i
            /\ out[1].viewpoint_b \in neg
            /\ \A i \in neg : out[1].viewpoint_b <= i
            /\ rs[out[1].viewpoint_a].sentiment # "neutral"
            /\ rs[out[1].viewpoint_b].sentiment # "neutral"
       ELSE out = <<>>

C22_Witness ==
  /\ Synthesized /\ Len(call.input.responses) = 4
  /\ call.input.responses[1].sentiment = "neutral"
  /\ call.input.responses[2].sentiment = "cautious"
  /\ call.input.responses[3].sentiment = "negative"
  /\ call.input.responses[4].sentiment = "very_positive"
  /\ Len(call.out.divergent_opinions) = 1
  /\ call.out.divergent_opinions[1].viewpoint_a = 4
  /\ call.out.divergent_opinions[1].viewpoint_b = 2

\* occurrences of a string in the lists of all agents, and the first agent
\* and place at which it occurs
Frequency(lists, x) ==
  Cardinality({p \in (DOMAIN lists) \X (1..NumItems) :
                 p[2] \in DOMAIN lists[p[1]] /\ lists[p[1]][p[2]] = x})

OccursFirst(lists, x, y) ==
  \E a \in DOMAIN lists : \E i \in DOMAIN lists[a] :
    /\ lists[a][i] = x
    /\ \A b \in 1..a : \A j \in DOMAIN lists[b] :
         lists[b][j] = y => (b = a /\ j > i)

\* x is ranked before y: more frequent, or as frequent and first to occur
RankedBefore(lists, x, y) ==
  \/ Frequency(lists, x) > Frequency(lists, y)
  \/ Frequency(lists, x) = Frequency(lists, y) /\ OccursFirst(lists, x, y)

\* out is the ranking of the strings of the lists, cut to cap entries
RankedCut(out, lists, cap) ==
  LET all == UNION {SeqRange(lists[a]) : a \in DOMAIN lists}
  IN /\ SeqRange(out) \subseteq all
     /\ \A i, j \in DOMAIN out : i < j =>
          out[i] # out[j] /\ RankedBefore(lists, out[i], out[j])
     /\ Len(out) = IF Cardinality(all) < cap THEN Cardinality(all) ELSE cap
     /\ \A x \in all \ SeqRange(out) : \A i \in DOMAIN out :
          RankedBefore(lists, out[i], x)

\* C23: each aggregate list of synthesize (opportunities, concerns,
\* questions, next steps) holds distinct strings ordered by descending
\* frequency over all agents' lists, ties ordered by first occurrence in
\* agent order, cut to 5 entries for opportunities, concerns and questions
\* and to 6 for next steps.
C23_AggregateLists ==
  (Synthesized /\ Len(call.input.responses) >= 1) =>
    LET rs == call.input.responses
    IN /\ RankedCut(call.out.top_opportunities,
                    [a \in DOMAIN rs |-> rs[a].opportunities], 5)
       /\ RankedCut(call.out.top_concerns,
                    [a \in DOMAIN rs |-> rs[a].concerns], 5)
       /\ RankedCut(call.out.priority_questions,
                    [a \in DOMAIN rs |-> rs[a].questions], 5)
       /\ RankedCut(call.out.next_steps_suggested,
                    [a \in DOMAIN rs |-> rs[a].recommendations], 6)

C23_Witness ==
  /\ Synthesized /\ Len(call.input.responses) = 2
  /\ call.input.responses[1].recommendations = Run(1, 7)
  /\ call.input.responses[2].recommendations = Run(3, 5)
  /\ call.out.next_steps_suggested =
       <<Item(3), Item(4), Item(5), Item(1), Item(2), Item(6)>>
  /\ call.out.top_opportunities = <<Item(3), Item(4), Item(5), Item(1), Item(2)>>
  /\ call.out.top_concerns = <<Item(5), Item(4), Item(3), Item(7), Item(6)>>
  /\ call.out.priority_questions = <<Item(4), Item(5), Item(2), Item(3), Item(6)>>

\* the sum of the sentiment scores of the responses of the call
ScoreSum ==
  LET rs == call.input.responses
  IN 2 * CountOf(rs, "very_positive") + CountOf(rs, "positive")
     - CountOf(rs, "cautious") - 2 * CountOf(rs, "negative")

\* C24: for N >= 1 responses overall_sentiment is the bucket of the average
\* A of the sentiment scores (VERY_POSITIVE +2, POSITIVE +1, NEUTRAL 0,
\* CAUTIOUS -1, NEGATIVE -2): VERY_POSITIVE if A >= 1.5, else POSITIVE if
\* A >= 0.5, else NEUTRAL if A > -0.5, else CAUTIOUS if A > -1.5, else
\* NEGATIVE; POSITIVE, POSITIVE, NEUTRAL give POSITIVE.
C24_OverallSentiment ==
  (Synthesized /\ Len(call.input.responses) >= 1) =>
    LET N == Len(call.input.responses)
        S == ScoreSum
    IN /\ call.out.overall_sentiment =
            IF 10 * S >= 15 * N THEN "very_positive"
            ELSE IF 10 * S >= 5 * N THEN "positive"
            ELSE IF 10 * S > -5 * N THEN "neutral"
            ELSE IF 10 * S > -15 * N THEN "cautious"
            ELSE "negative"
       /\ ([i \in DOMAIN call.input.responses |-> call.input.responses[i].sentiment]
             = <<"positive", "positive", "neutral">>)
            => call.out.overall_sentiment = "positive"

C24_Witness ==
  /\ Synthesized
  /\ call.input.responses =
       <<SynthResponse("positive"), SynthResponse("positive"), SynthResponse("neutral")>>
  /\ call.out.overall_sentiment = "positive"

C24_WitnessBoundary ==
  /\ Synthesized
  /\ call.input.responses = <<SynthResponse("positive"), SynthResponse("neutral")>>
  /\ call.out.overall_sentiment = "positive"

\* the sum of the confidence scores of the responses of the call, in tenths
RECURSIVE TenthsOf(_)
TenthsOf(rs) ==
  IF rs = <<>> THEN 0 ELSE Head(rs).confidence_score + TenthsOf(Tail(rs))

\* C25: for N >= 1 responses confidence_level is "high" when the average
\* confidence_score is at least 0.8, "medium" when it is at least 0.6 and
\* below 0.8, and "low" below 0.6.
C25_ConfidenceLevel ==
  (Synthesized /\ Len(call.input.responses) >= 1) =>
    LET N == Len(call.input.responses)
        T == TenthsOf(call.input.responses)
    IN call.out.confidence_level =
         IF T >= 8 * N THEN "high" ELSE IF T >= 6 * N THEN "medium" ELSE "low"

AnalyzeReturned == call.fn = "analyze" /\ ~call.raised

\* the lines of a text that are read as the sentiment line and as the
\* confidence line: the marker of the section occurs and the marker of no
\* section tried before it does
IsSentimentLine(l) ==
  /\ "sentiment" \in l.markers
  /\ l.markers \cap {"summary", "opportunities", "concerns", "questions",
                     "recommendations"} = {}

IsConfidenceLine(l) ==
  /\ "confidence" \in l.markers
  /\ l.markers \cap {"summary", "opportunities", "concerns", "questions",
                     "recommendations", "sentiment"} = {}

Latest(S) == CHOOSE i \in S : \A j \in S : j <= i

\* C27: when the text of the collaborator contains no recognized section
\* header, analyze still returns a valid response, with an empty summary,
\* empty opportunities, concerns, questions and recommendations, sentiment
\* NEUTRAL and confidence 0.7.
C27_NoHeaderDefaults ==
  (/\ call.fn = "analyze" /\ ~call.generated.raised
   /\ \A i \in DOMAIN call.generated.response_text :
        call.generated.response_text[i].markers = {}) =>
    /\ ~call.raised
    /\ call.response.summary = <<>>
    /\ call.response.opportunities = <<>>
    /\ call.response.concerns = <<>>
    /\ call.response.questions = <<>>
    /\ call.response.recommendations = <<>>
    /\ call.response.sentiment = "neutral"
    /\ call.response.confidence_score = 7

C27_Witness ==
  /\ AnalyzeReturned
  /\ call.generated.response_text = <<Sentence, Bullet, Blank>>
  /\ call.response.summary = <<>> /\ call.response.opportunities = <<>>
  /\ call.response.sentiment = "neutral" /\ call.response.confidence_score = 7

\* C28: the parsed sentiment is decided by keyword priority on the sentiment
\* line (the latest one that names a keyword): very_positive wins over
\* positive, positive over cautious, cautious over negative; when no
\* sentiment line names one of the four keywords the sentiment is NEUTRAL.
C28_SentimentPriority ==
  AnalyzeReturned =>
    LET text == call.generated.response_text
        naming == {i \in DOMAIN text : IsSentimentLine(text[i]) /\ text[i].keywords # {}}
    IN IF naming = {} THEN call.response.sentiment = "neutral"
       ELSE LET k == text[Latest(naming)].keywords
            IN call.response.sentiment =
                 IF "very_positive" \in k THEN "very_positive"
                 ELSE IF "positive" \in k THEN "positive"
                 ELSE IF "cautious" \in k THEN "cautious"
                 ELSE "negative"

C28_Witness ==
  /\ AnalyzeReturned
  /\ call.generated.response_text =
       <<SentimentHeader({"positive", "cautious"}), Sentence>>
  /\ call.response.sentiment = "positive"

\* C29: every AgentResponse produced by analyze, for any text of the
\* collaborator, has a confidence_score within [0,1] (the first numeric
\* token of the confidence line clamped to that range, 0.7 when there is
\* none) and a sentiment that is one of the five categories.
C29_ConfidenceRange ==
  AnalyzeReturned =>
    LET text == call.generated.response_text
        numbered == {i \in DOMAIN text : IsConfidenceLine(text[i]) /\ text[i].number # NoNumber}
    IN /\ call.response.confidence_score \in 0..10
       /\ call.response.sentiment \in
            {"very_positive", "positive", "neutral", "cautious", "negative"}
       /\ IF numbered = {} THEN call.response.confidence_score = 7
          ELSE LET score == text[Latest(numbered)].number
               IN call.response.confidence_score =
                    IF score > 10 THEN 10 ELSE IF score < 0 THEN 0 ELSE score

C29_Witness ==
  /\ AnalyzeReturned
  /\ call.generated.response_text = <<ConfidenceHeader(15), Sentence>>
  /\ call.response.confidence_score = 10

\* C30: analyze fails with a generation error when the call of the
\* collaborator fails, and then produces no response and records nothing in
\* the conversation history of the agent.
C30_GenerationFailure ==
  (call.fn = "analyze" /\ call.generated.raised) =>
    /\ call.raised /\ call.error = "generation"
    /\ call.response = NoResponse
    /\ call.conversation_history = call.before

C30_Witness ==
  /\ call.fn = "analyze" /\ call.generated.raised /\ call.raised
  /\ call.before = EarlierRound
  /\ call.conversation_history = EarlierRound

\* the analyze calls the round of the serial caller has made on agent i
CallsOn(i) == {j \in DOMAIN F1.calls : F1.calls[j].agent = i}

\* C31: in one round the collaborator is called exactly once for each agent
\* of the coordinator, in parallel and in sequential mode alike: an agent
\* that timed out or failed is not called again in that round.
C31_OneCallPerAgent ==
  \A i \in AgentIdx :
    /\ Cardinality(CallsOn(i)) <= 1
    /\ F1.outcome[i] # "pending" => Cardinality(CallsOn(i)) = 1
    /\ F1.pc = "done" => Cardinality(CallsOn(i)) = 1

C31_Witness ==
  /\ F1.pc = "done" /\ F1.mode = "sequential"
  /\ F1.outcome[1] = "timeout" /\ F1.outcome[2] = "error" /\ F1.outcome[3] = "ok"
  /\ Len(F1.calls) = 3
  /\ \A i \in AgentIdx : Cardinality(CallsOn(i)) = 1

\* C35: a step of execute_round leaves every round already in the history as
\* it was, in its place, and the history grows by at most the one round the
\* step appends at the end: no round is removed, reordered or replaced.
C35_HistoryAppendOnly ==
  [][/\ Len(rounds') \in {Len(rounds), Len(rounds) + 1}
     /\ \A i \in DOMAIN rounds : rounds'[i] = rounds[i]]_vars

C35_Witness ==
  /\ Len(rounds) = 3 /\ F1.pc = "done" /\ F1.fr = rounds[3]
  /\ rounds[1].status = "completed" /\ rounds[2].status = "failed"
  /\ rounds[1].agent_responses # <<>>

\* C36: a sequential round after the first does not see the previous round:
\* its first agent is called with no peer context, and every response in any
\* agent's context is a response of the round being run.
C36_SequentialNoPrevious ==
  (F1.mode = "sequential" /\ F1.pc \in {"seq", "done"} /\ F1.fr.round_number > 1) =>
    /\ F1.calls[1].ctx = NoneList
    /\ \A k \in 1..Len(F1.calls) :
         \A j \in 1..Len(CtxList(F1.calls[k].ctx)) :
           CtxList(F1.calls[k].ctx)[j].round_number = F1.fr.round_number

C36_Witness ==
  /\ F1.mode = "sequential" /\ F1.pc = "seq" /\ F1.fr.round_number = 2
  /\ Len(rounds) = 1 /\ rounds[1].agent_responses # <<>>
  /\ F1.previous_responses.some
  /\ Len(F1.calls) = 2 /\ F1.calls[2].ctx.some

\* C37: the start-round operation takes a mode selector, "parallel" or
\* "sequential", and the round it starts is run in the mode that was asked
\* for: sequential by run_sequential_dialogue, parallel by
\* run_parallel_analysis.
C37_RequestedModeRuns ==
  \A q \in Slots :
    /\ InFlight(q) =>
         /\ inv[q].mode = inv[q].requested
         /\ inv[q].pc = (IF inv[q].requested = "sequential" THEN "seq" ELSE "gather")
    /\ inv[q].pc = "done" => inv[q].mode = inv[q].requested

\* C39: whenever no start-round request of the session is in flight, the
\* session's current_round is the number of rounds in the manager's history
\* and the round_number of the last round (0 when there is none), after any
\* sequence of start-round requests.
C39_CurrentRoundIsHistory ==
  (\A q \in Slots : ~InFlight(q)) =>
    /\ active_sessions[session_id].current_round = Len(rounds)
    /\ active_sessions[session_id].current_round =
         (IF rounds = <<>> THEN 0 ELSE rounds[Len(rounds)].round_number)

\* C34: the peer context given to an analyze call is an immutable snapshot:
\* the list a call was given holds, at any later time, what it held when the
\* call was made; in sequential mode the list given to agent k holds exactly
\* the responses of agents 1..k-1 also after agent k and later agents ran.
C34_ContextSnapshot ==
  \A k \in 1..Len(F1.calls) :
    /\ ContextNow(F1, F1.calls[k]) = CtxList(F1.calls[k].ctx)
    /\ F1.mode = "sequential" => ContextNow(F1, F1.calls[k]) = ExpectedBelow(F1, k)

\* C32: the conversation history of an agent only grows at its end: a step
\* adds one entry to it exactly when an analyze call of the agent returns a
\* response; a call that failed or timed out adds none, nor does an answer
\* that arrives after the timeout, and no entry is removed or changed.
C32_HistoryAppendOnly ==
  [][\A i \in AgentIdx :
       LET before == agent_cache[agents[i]]
           after == agent_cache'[agents[i]]
           returned == F1.outcome[i] = "pending" /\ inv'[1].outcome[i] = "ok"
       IN /\ Len(after) >= Len(before)
          /\ SubSeq(after, 1, Len(before)) = before
          /\ Len(after) = Len(before) + (IF returned THEN 1 ELSE 0)]_vars

C32_Witness ==
  /\ F1.outcome[1] = "timeout" /\ F1.late[1] /\ agent_cache[agents[1]] = <<>>
  /\ F1.outcome[2] = "ok" /\ Len(agent_cache[agents[2]]) = 2
  /\ agent_cache[agents[2]][2].round = 2
  /\ F1.outcome[3] = "error" /\ Len(agent_cache[agents[3]]) = 1

\* how often persona p is bound to a session with agent list ids
Bound(ids, p) == Cardinality({i \in DOMAIN ids : ids[i] = p})

\* C33: the conversation history of an agent is scoped to its session: the
\* agents of a session hold no entry before the session's first round, also
\* when another session, live or deleted, used the same persona, and they
\* hold no more than one entry per call of the session's own rounds.
C33_HistoryPerSession ==
  \A sid \in DOMAIN active_sessions :
    \A p \in SeqRange(active_sessions[sid].selected_agents) :
      Len(agent_cache[p]) <=
        active_sessions[sid].current_round
          * Bound(active_sessions[sid].selected_agents, p)

\* C40: in every round of the history each agent bound to the session has at
\* most one response, every response is a bound agent's and carries the
\* round's number, and the synthesis of a completed round counts the
\* responses of the round, not the bound agents.
C40_RoundResponses ==
  \A r \in 1..Len(rounds) :
    LET responses == rounds[r].agent_responses
    IN /\ \A a \in SeqRange(agents) :
            Cardinality({j \in DOMAIN responses : responses[j].agent_id = a}) <= 1
       /\ \A j \in DOMAIN responses :
            /\ responses[j].agent_id \in SeqRange(agents)
            /\ responses[j].round_number = rounds[r].round_number
       /\ rounds[r].status = "completed" =>
            rounds[r].synthesis.total_agents = Len(responses)

\* the round of the serial caller returned with no agent having answered
AllFailed(f) ==
  /\ Returned(f) /\ f.fault = "none"
  /\ \A i \in AgentIdx : f.outcome[i] \in {"timeout", "error"}

\* C38: a round in which every agent timed out or failed is stored COMPLETED
\* with no response, a synthesis of 0 agents, no consensus and no divergent
\* points and the NEUTRAL sentiment; the round after it takes it as the
\* previous round: its previous responses are that round's empty list.
C38_AllFailedCompleted ==
  /\ AllFailed(F1) =>
       LET round == rounds[Len(rounds)]
       IN /\ round = F1.fr
          /\ round.status = "completed"
          /\ round.agent_responses = <<>>
          /\ round.synthesis.some /\ round.synthesis.total_agents = 0
          /\ round.consensus_points = <<>> /\ round.divergent_points = <<>>
          /\ round.overall_sentiment = "neutral"
  /\ \A q \in Slots :
       (/\ inv[q].pc \in {"gather", "seq", "done"}
        /\ inv[q].fr.round_number > 1
        /\ rounds[inv[q].fr.round_number - 1].status = "completed"
        /\ rounds[inv[q].fr.round_number - 1].agent_responses = <<>>)
         => /\ inv[q].previous_responses = SomeList(<<>>)
            /\ inv[q].mode = "parallel" =>
                 \A k \in DOMAIN inv[q].calls : inv[q].calls[k].ctx = SomeList(<<>>)

C38_Witness ==
  /\ Len(rounds) = 2 /\ AllFailed(F1) /\ F1.mode = "parallel"
  /\ F1.outcome[1] = "timeout" /\ F1.outcome[2] = "error"
  /\ rounds[1].status = "completed" /\ rounds[1].agent_responses = <<>>
  /\ rounds[2].status = "completed" /\ rounds[2].synthesis.total_agents = 0
  /\ F1.previous_responses = SomeList(<<>>)

====
